---- MODULE Spec2Model ----
(***************************************************************************)
(* Ticker-performance aggregation and ranking engine of the tickers        *)
(* dashboard: month partitioning, mention aggregation, price-series cache, *)
(* basis/latest resolution, bounded-concurrency batch fetch and ranking.   *)
(*                                                                         *)
(* Representation of JavaScript values                                     *)
(*   - a time value (epoch milliseconds) is [k |-> "t", day, ms]: the      *)
(*     number day * 86400000 + ms with 0 <= ms < 86400000; NaN and         *)
(*     Infinity are the records NaN and Infinity.  The representation is   *)
(*     exact to the millisecond and keeps every number within 32 bits.     *)
(*   - a string that the code inspects (a ticker, a month key) is a        *)
(*     sequence of one-character strings; other strings are opaque.        *)
(***************************************************************************)
EXTENDS Integers, Sequences, FiniteSets, TLC

(* ------------------------------ bounds -------------------------------- *)
\* Longest mention store the aggregation side explores.
MaxEntries == 3

(* --------------------------- program constants ------------------------ *)
MsPerDay == 86400000

(* ------------------------------ evaluation ---------------------------- *)
\* F applied to the value of e: e is evaluated once, where F(e) would
\* evaluate it at each place F uses its parameter.
Apply(F(_), e) == CHOOSE r \in {F(x) : x \in {e}} : TRUE

(* ----------------------- JavaScript time values ----------------------- *)
Ms(day, ms) == [k |-> "t", day |-> day, ms |-> ms]
NaN == [k |-> "NaN", day |-> 0, ms |-> 0]
Infinity == [k |-> "Inf", day |-> 0, ms |-> 0]
\* The literal -1 (one millisecond before the epoch).
MinusOne == Ms(-1, MsPerDay - 1)
IsTime(x) == x.k = "t"

\* a < b on numbers: false as soon as one side is NaN.
NumLt(a, b) ==
  /\ a.k # "NaN" /\ b.k # "NaN"
  /\ \/ a.k = "t" /\ b.k = "Inf"
     \/ a.k = "t" /\ b.k = "t"
        /\ (a.day < b.day \/ (a.day = b.day /\ a.ms < b.ms))
NumGt(a, b) == NumLt(b, a)
NumLe(a, b) == NumLt(a, b) \/ (a.k # "NaN" /\ a = b)

(* ----------------------- calendar of the Date object ------------------ *)
\* Day number (days since 1970-01-01) of a proleptic Gregorian date.
DaysFromCivil(y, m, d) ==
  LET yy  == IF m <= 2 THEN y - 1 ELSE y
      era == yy \div 400
      yoe == yy - era * 400
      mp  == IF m > 2 THEN m - 3 ELSE m + 9
      doy == (153 * mp + 2) \div 5 + d - 1
      doe == yoe * 365 + yoe \div 4 - yoe \div 100 + doy
  IN  era * 146097 + doe - 719468

\* Year, month (1..12) and day of a day number.
CivilFromDays(z) ==
  LET zz  == z + 719468
      era == zz \div 146097
      doe == zz - era * 146097
      yoe == (doe - doe \div 1460 + doe \div 36524 - doe \div 146096) \div 365
      doy == doe - (365 * yoe + yoe \div 4 - yoe \div 100)
      mp  == (5 * doy + 2) \div 153
      d   == doy - (153 * mp + 2) \div 5 + 1
      m   == IF mp < 10 THEN mp + 3 ELSE mp - 9
  IN  [y |-> IF m <= 2 THEN yoe + era * 400 + 1 ELSE yoe + era * 400,
       m |-> m, d |-> d]

\* Date.UTC(year, monthIndex, 1, 0, 0, 0, 0): the month index may overflow
\* into the neighbouring years, and a year 0..99 means 1900 + year.
DateUTC(year, monthIndex) ==
  LET y0 == IF year >= 0 /\ year <= 99 THEN 1900 + year ELSE year
      ym == y0 + monthIndex \div 12
      mn == monthIndex % 12
  IN  Ms(DaysFromCivil(ym, mn + 1, 1), 0)

\* new Date(t).getUTCFullYear() and getUTCMonth(); NaN for an invalid date.
JsInt(v) == [k |-> "num", v |-> v]
JsNaN == [k |-> "NaN", v |-> 0]
getUTCFullYear(t) == IF IsTime(t) THEN JsInt(CivilFromDays(t.day).y) ELSE JsNaN
getUTCMonth(t) == IF IsTime(t) THEN JsInt(CivilFromDays(t.day).m - 1) ELSE JsNaN
\* a === b on numbers
StrictEq(a, b) == a.k = "num" /\ b.k = "num" /\ a.v = b.v

(* ------------------------------ strings ------------------------------- *)
Digits == <<"0", "1", "2", "3", "4", "5", "6", "7", "8", "9">>
IsDigit(c) == \E j \in 1..10 : Digits[j] = c
DigitVal(c) == (CHOOSE j \in 1..10 : Digits[j] = c) - 1

RECURSIVE NatToStr(_)
NatToStr(n) == IF n < 10 THEN <<Digits[n + 1]>>
               ELSE NatToStr(n \div 10) \o <<Digits[(n % 10) + 1]>>

\* String(x) of a number
NumToStr(x) == IF x.k = "NaN" THEN <<"N", "a", "N">>
               ELSE IF x.v < 0 THEN <<"-">> \o NatToStr(-x.v)
               ELSE NatToStr(x.v)

RECURSIVE padStart(_, _, _)
padStart(s, len, c) == IF Len(s) >= len THEN s ELSE padStart(<<c>> \o s, len, c)

RECURSIVE StrToNat(_)
StrToNat(s) == IF Len(s) = 0 THEN 0
               ELSE StrToNat(SubSeq(s, 1, Len(s) - 1)) * 10 + DigitVal(s[Len(s)])

\* Number(s) of a string: decimal digits, "" is 0, anything else NaN.
Number(s) == IF \A j \in 1..Len(s) : IsDigit(s[j]) THEN JsInt(StrToNat(s)) ELSE JsNaN

\* s.split("-")
RECURSIVE split(_)
split(s) ==
  IF \A j \in 1..Len(s) : s[j] # "-" THEN <<s>>
  ELSE LET p == CHOOSE j \in 1..Len(s) : s[j] = "-" /\ \A q \in 1..(j - 1) : s[q] # "-"
       IN  <<SubSeq(s, 1, p - 1)>> \o split(SubSeq(s, p + 1, Len(s)))

\* String.prototype.toUpperCase over the alphabet of the modelled tickers.
UpperChar(c) == CASE c = "a" -> "A" [] c = "b" -> "B" [] OTHER -> c
\* Mutant: the ticker is used as it was written.
toUpperCaseOmitted(s) == s
toUpperCase(s) == [j \in 1..Len(s) |-> UpperChar(s[j])]

\* Collation rank of a character under localeCompare: punctuation, then
\* digits, then letters.
CollRank(c) == IF c = "-" THEN 0
               ELSE IF IsDigit(c) THEN 1 + DigitVal(c)
               ELSE IF c = "a" THEN 11 ELSE 12

\* a.localeCompare(b): negative, zero or positive.
RECURSIVE localeCompare(_, _)
localeCompare(a, b) ==
  IF Len(a) = 0 /\ Len(b) = 0 THEN 0
  ELSE IF Len(a) = 0 THEN -1
  ELSE IF Len(b) = 0 THEN 1
  ELSE IF CollRank(a[1]) < CollRank(b[1]) THEN -1
  ELSE IF CollRank(a[1]) > CollRank(b[1]) THEN 1
  ELSE localeCompare(Tail(a), Tail(b))

(* --------------------------- mention records -------------------------- *)
\* A string-valued field that may be missing.
Str(s) == [def |-> TRUE, s |-> s]
Undefined == [def |-> FALSE, s |-> <<>>]
\* Truthiness of such a field: undefined and "" are falsy.
Truthy(x) == x.def /\ Len(x.s) > 0

\* An ISO-8601 timestamp "YYYY-MM-DDThh:mm:ss.sssZ"; ms is the time of day.
Iso(y, mo, d, ms) == [ok |-> TRUE, y |-> y, mo |-> mo, d |-> d, ms |-> ms]
\* A missing or unparseable timestamp.
BadTimestamp == [ok |-> FALSE, y |-> 0, mo |-> 0, d |-> 0, ms |-> 0]
\* Date.parse(e.timestamp)
DateParse(ts) == IF ts.ok THEN Ms(DaysFromCivil(ts.y, ts.mo, ts.d), ts.ms) ELSE NaN

NoUser == [id |-> "", name |-> ""]

TickerPool == <<Str(<<"a", "b">>), Str(<<"A", "b">>), Str(<<"b">>), Undefined>>
TimestampPool == <<Iso(2024, 3, 1, 0), Iso(2024, 3, 31, MsPerDay - 1),
                   Iso(1969, 12, 31, 0), BadTimestamp>>
UserPool == <<[id |-> "u1", name |-> "Ann"], [id |-> "u2", name |-> "Bo"],
              NoUser, [id |-> "u1", name |-> "Ann"]>>
LinkPool == <<<<"l11", "l12", "l13", "l14">>, <<"l21", "l22", "l23", "l24">>,
              <<"l31", "", "l33", "l34">>, <<"l41", "l42", "l43", "l44">>>>

\* The mention records the store may hold: every spelling of a ticker at every
\* valid timestamp, posted by the user of that spelling and with a link of its
\* own, a record without ticker, a record without a usable timestamp, and a
\* mention of the second ticker by the user of the first.
EntryPool ==
  {[ticker |-> TickerPool[a], timestamp |-> TimestampPool[b],
    link |-> LinkPool[a][b], user |-> UserPool[a]] : a \in 1..3, b \in 1..3}
  \cup {[ticker |-> TickerPool[4], timestamp |-> TimestampPool[1],
         link |-> LinkPool[4][1], user |-> UserPool[4]],
        [ticker |-> TickerPool[1], timestamp |-> TimestampPool[4],
         link |-> LinkPool[1][4], user |-> UserPool[1]],
        [ticker |-> TickerPool[3], timestamp |-> TimestampPool[2],
         link |-> LinkPool[3][4], user |-> UserPool[1]]}

\* The month keys a request may select.
MonthPool == {<<"2", "0", "2", "4", "-", "0", "3">>, <<"1", "9", "6", "9", "-", "1", "2">>,
              <<"2", "0", "2", "4", "-", "1", "2">>}

(* ---------------------------- Month Partitioner ----------------------- *)
startOfMonthUTC(year, month) ==
  IF year.k = "num" /\ month.k = "num" THEN DateUTC(year.v, month.v - 1) ELSE NaN

\* Mutant: only the month of the year is compared.
isInMonthIgnoringYear(tsMs, monthStartMs) ==
  StrictEq(getUTCMonth(tsMs), getUTCMonth(monthStartMs))
isInMonth(tsMs, monthStartMs) ==
  /\ StrictEq(getUTCFullYear(tsMs), getUTCFullYear(monthStartMs))
  /\ StrictEq(getUTCMonth(tsMs), getUTCMonth(monthStartMs))

(* ------------------------------ ordered maps -------------------------- *)
\* A Map: its keys in insertion order and the value of each key.
EmptyMap == [keys |-> <<>>, val |-> <<>>]
MapHas(m, key) == \E j \in 1..Len(m.keys) : m.keys[j] = key
MapKeys(m) == {m.keys[j] : j \in 1..Len(m.keys)}
MapGet(m, key) == m.val[CHOOSE j \in 1..Len(m.keys) : m.keys[j] = key]
MapSet(m, key, v) ==
  IF MapHas(m, key)
  THEN [m EXCEPT !.val[CHOOSE j \in 1..Len(m.keys) : m.keys[j] = key] = v]
  ELSE [keys |-> Append(m.keys, key), val |-> Append(m.val, v)]

(* ---------------------------- Mention Aggregator ---------------------- *)
NewAggregate ==
  [countMTD |-> 0, firstTs |-> Infinity, firstLink |-> "", firstUserId |-> "",
   firstUserName |-> "", lastTs |-> MinusOne, lastLink |-> ""]

\* Mutant: the last mention is updated only when the first one is not
\* ("else if (ts > cur.lastTs)").
AggregateEntryElseIf(byTicker, e) ==
  LET sym == IF e.ticker.def THEN Str(toUpperCase(e.ticker.s)) ELSE Undefined IN
  IF ~Truthy(sym) THEN byTicker
  ELSE
    LET ts  == DateParse(e.timestamp)
        cur == IF MapHas(byTicker, sym.s) THEN MapGet(byTicker, sym.s) ELSE NewAggregate
        c1  == [cur EXCEPT !.countMTD = @ + 1]
        c2  == IF NumLt(ts, c1.firstTs)
               THEN [c1 EXCEPT !.firstTs = ts, !.firstLink = e.link,
                               !.firstUserId = e.user.id, !.firstUserName = e.user.name]
               ELSE IF NumGt(ts, c1.lastTs)
               THEN [c1 EXCEPT !.lastTs = ts, !.lastLink = e.link]
               ELSE c1
    IN  MapSet(byTicker, sym.s, c2)

\* One iteration of the loop over the month's records.
AggregateEntry(byTicker, e) ==
  LET sym == IF e.ticker.def THEN Str(toUpperCase(e.ticker.s)) ELSE Undefined IN
  IF ~Truthy(sym) THEN byTicker
  ELSE
    LET ts  == DateParse(e.timestamp)
        cur == IF MapHas(byTicker, sym.s) THEN MapGet(byTicker, sym.s) ELSE NewAggregate
        c1  == [cur EXCEPT !.countMTD = @ + 1]
        c2  == IF NumLt(ts, c1.firstTs)
               THEN [c1 EXCEPT !.firstTs = ts, !.firstLink = e.link,
                               !.firstUserId = e.user.id, !.firstUserName = e.user.name]
               ELSE c1
        c3  == IF NumGt(ts, c2.lastTs)
               THEN [c2 EXCEPT !.lastTs = ts, !.lastLink = e.link]
               ELSE c2
    IN  MapSet(byTicker, sym.s, c3)

RECURSIVE AggregateAll(_, _)
AggregateAll(byTicker, mtd) ==
  IF Len(mtd) = 0 THEN byTicker
  ELSE AggregateAll(AggregateEntry(byTicker, Head(mtd)), Tail(mtd))

\* One iteration of the loop over the aggregates.
\* Mutant: the count of a user is set to 1 instead of incremented.
CountFirstUserOnce(counts, v) ==
  IF v.firstUserId = "" THEN counts
  ELSE MapSet(counts, v.firstUserId, [name |-> v.firstUserName, count |-> 1])
CountFirstUser(counts, v) ==
  IF v.firstUserId = "" THEN counts
  ELSE LET e0 == IF MapHas(counts, v.firstUserId) THEN MapGet(counts, v.firstUserId)
                 ELSE [name |-> v.firstUserName, count |-> 0]
           e1 == [e0 EXCEPT !.count = @ + 1]
           e2 == IF e1.name = "" /\ v.firstUserName # ""
                 THEN [e1 EXCEPT !.name = v.firstUserName] ELSE e1
       IN  MapSet(counts, v.firstUserId, e2)

RECURSIVE CountFirstUsers(_, _)
CountFirstUsers(counts, vals) ==
  IF Len(vals) = 0 THEN counts
  ELSE CountFirstUsers(CountFirstUser(counts, Head(vals)), Tail(vals))

buildMonthAgg(es, selectedMonth) ==
  LET parts      == split(selectedMonth)
      year       == Number(parts[1])
      month      == IF Len(parts) >= 2 THEN Number(parts[2]) ELSE JsNaN
      monthStart == startOfMonthUTC(year, month)
      mtd        == SelectSeq(es, LAMBDA e : isInMonth(DateParse(e.timestamp), monthStart))
      byTicker   == AggregateAll(EmptyMap, mtd)
  IN  [byTicker |-> byTicker, firstByUserCounts |-> CountFirstUsers(EmptyMap, byTicker.val)]

(* ------------------------------ availableMonths ----------------------- *)
MonthKey(e) ==
  LET d     == DateParse(e.timestamp)
      year  == getUTCFullYear(d)
      m0    == getUTCMonth(d)
      month == padStart(NumToStr(IF m0.k = "num" THEN JsInt(m0.v + 1) ELSE JsNaN), 2, "0")
  IN  NumToStr(year) \o <<"-">> \o month

\* new Set() filled in encounter order: the distinct keys, first occurrence first.
RECURSIVE MonthSet(_, _)
MonthSet(seen, es) ==
  IF Len(es) = 0 THEN seen
  ELSE LET key == MonthKey(Head(es))
       IN  MonthSet(IF \E j \in 1..Len(seen) : seen[j] = key THEN seen ELSE Append(seen, key),
                    Tail(es))

\* Mutant: the comparator (a, b) => a.localeCompare(b).
MonthCompareAscending(a, b) == localeCompare(a, b)
\* The comparator (a, b) => b.localeCompare(a).
MonthCompare(a, b) == localeCompare(b, a)

\* Array.prototype.sort (stable) with MonthCompare: x goes after every element
\* that the comparator does not put after it.
RECURSIVE InsertMonth(_, _)
InsertMonth(sorted, x) ==
  IF Len(sorted) = 0 THEN <<x>>
  ELSE IF MonthCompare(sorted[Len(sorted)], x) <= 0 THEN Append(sorted, x)
  ELSE Append(InsertMonth(SubSeq(sorted, 1, Len(sorted) - 1), x), sorted[Len(sorted)])

RECURSIVE SortMonths(_)
SortMonths(s) == IF Len(s) = 0 THEN <<>>
                 ELSE InsertMonth(SortMonths(SubSeq(s, 1, Len(s) - 1)), s[Len(s)])

getAvailableMonths(es) == SortMonths(MonthSet(<<>>, es))

(* ----------------------------- price values ---------------------------- *)
\* A value of a price array or of a metadata field: a number (JsInt), null
\* or undefined.  Prices are whole numbers of the smallest currency unit.
JsNull == [k |-> "null", v |-> 0]
JsUndef == [k |-> "undef", v |-> 0]
\* v != null && isFinite(v)
IsFiniteValue(x) == x.k = "num"
\* x > 0
IsPositive(x) == x.k = "num" /\ x.v > 0
\* a ?? b
Coalesce(a, b) == IF a.k = "null" \/ a.k = "undef" THEN b ELSE a
\* arr[idx] with idx counted from 0: undefined outside the array.
At(arr, idx) == IF idx >= 0 /\ idx < Len(arr) THEN arr[idx + 1] ELSE JsUndef

(* ------------------------------ time zones ----------------------------- *)
\* Day of the week of a day number, 0 = Sunday (1970-01-01 was a Thursday).
Weekday(day) == (day + 4) % 7
\* The first Sunday on or after day number day.
SundayOnOrAfter(day) == day + ((7 - Weekday(day)) % 7)
\* Minutes east of UTC of a zone at an instant.  America/New_York follows the
\* rule in force since 2007 (second Sunday of March 07:00 UTC to first Sunday
\* of November 06:00 UTC); the instants of the model before 2007 lie in the
\* winter, where every rule gives standard time.
NotBefore(t, d, h) == t.day > d \/ (t.day = d /\ t.ms >= h * 3600000)
UsEasternOffset(t, y) ==
  IF /\ NotBefore(t, SundayOnOrAfter(DaysFromCivil(y, 3, 8)), 7)
     /\ ~NotBefore(t, SundayOnOrAfter(DaysFromCivil(y, 11, 1)), 6)
  THEN -240 ELSE -300
TzOffsetMinutes(tz, t) ==
  CASE tz = "UTC" -> 0
    [] tz = "Asia/Tokyo" -> 540
    [] OTHER -> Apply(LAMBDA y : UsEasternOffset(t, y), CivilFromDays(t.day).y)

\* The calendar date of an instant as observed in a zone.
LocalCivil(t, tz) ==
  Apply(CivilFromDays, t.day + ((t.ms + TzOffsetMinutes(tz, t) * 60000) \div MsPerDay))

\* Intl.DateTimeFormat("en-CA", {timeZone, year, month: "2-digit", day: "2-digit"}).format
FormatYMD(y, m, d) ==
  NatToStr(y) \o <<"-">> \o padStart(NatToStr(m), 2, "0") \o <<"-">> \o padStart(d, 2, "0")
FormatCivil(c) == FormatYMD(c.y, c.m, NatToStr(c.d))
localYMD(ts, tz) == Apply(FormatCivil, LocalCivil(ts, tz))

\* The year and month parts of the first instant of the UTC month, observed in tz.
FormatFirstOfMonth(c) == FormatYMD(c.y, c.m, <<"0", "1">>)
monthFirstYMD(tz, year, month) ==
  Apply(FormatFirstOfMonth, LocalCivil(startOfMonthUTC(year, month), tz))

\* UTF-16 code unit of the characters of a date string.
CodeUnit(c) == IF c = "-" THEN 45 ELSE 48 + DigitVal(c)
\* Mutant: a > b on strings.
RECURSIVE StrGt(_, _)
StrGt(a, b) ==
  IF Len(a) = 0 THEN FALSE
  ELSE IF Len(b) = 0 THEN TRUE
  ELSE IF CodeUnit(a[1]) > CodeUnit(b[1]) THEN TRUE
  ELSE IF CodeUnit(a[1]) < CodeUnit(b[1]) THEN FALSE
  ELSE StrGt(Tail(a), Tail(b))
\* a >= b on strings
RECURSIVE StrGe(_, _)
StrGe(a, b) ==
  IF Len(b) = 0 THEN TRUE
  ELSE IF Len(a) = 0 THEN FALSE
  ELSE IF CodeUnit(a[1]) > CodeUnit(b[1]) THEN TRUE
  ELSE IF CodeUnit(a[1]) < CodeUnit(b[1]) THEN FALSE
  ELSE StrGe(Tail(a), Tail(b))

(* --------------------------- Price Series Cache ----------------------- *)
\* Elapsed whole days between fromTs and now: floor((now - from) / 86400000).
ElapsedDays(nowMs, fromTsMs) ==
  (nowMs.day - fromTsMs.day) - (IF nowMs.ms < fromTsMs.ms THEN 1 ELSE 0)

\* fromTsMs || Date.now(): 0 and NaN are falsy.
FromOrNow(fromTsMs, nowMs) ==
  IF fromTsMs.k = "NaN" \/ fromTsMs = Ms(0, 0) THEN nowMs ELSE fromTsMs

\* Math.max(1, e)
AtLeastOne(e) == IF e > 1 THEN e ELSE 1
\* Mutant: the thresholds are exclusive.
RangeOfDaysExclusive(days) ==
  IF days < 30 THEN "1mo" ELSE IF days < 62 THEN "3mo"
  ELSE IF days < 370 THEN "1y" ELSE "5y"
RangeOfDays(days) ==
  IF days <= 30 THEN "1mo" ELSE IF days <= 62 THEN "3mo"
  ELSE IF days <= 370 THEN "1y" ELSE "5y"
RangeOf(nowMs, fromTsMs) ==
  Apply(RangeOfDays,
        Apply(LAMBDA from : AtLeastOne(ElapsedDays(nowMs, FromOrNow(from, nowMs))), fromTsMs))

CacheKey(symbol, range) == <<symbol, range>>

\* The last element of closes that is neither null nor non-finite.
RECURSIVE LastFinite(_)
LastFinite(closes) ==
  IF Len(closes) = 0 THEN JsUndef
  ELSE IF IsFiniteValue(closes[Len(closes)]) THEN closes[Len(closes)]
  ELSE LastFinite(SubSeq(closes, 1, Len(closes) - 1))

\* An upstream reply: kind "fail" (the request fails), "na" (no result
\* payload) or "ok" with the payload's arrays (absent arrays are empty),
\* timestamps in epoch seconds as [day, sec], and the metadata.
FailedReply == [kind |-> "fail", timestamp |-> <<>>, open |-> <<>>, close |-> <<>>,
                adjclose |-> <<>>, regularMarketPrice |-> JsUndef, tz |-> ""]
EmptyReply == [FailedReply EXCEPT !.kind = "na"]

\* The series getYahooChart builds from an "ok" reply.
ParseChart(r) ==
  LET ts     == [j \in 1..Len(r.timestamp) |-> Ms(r.timestamp[j].day, r.timestamp[j].sec * 1000)]
      closes == IF Len(r.close) = 0 /\ Len(r.adjclose) > 0 THEN r.adjclose ELSE r.close
      lastClose == LastFinite(closes)
  IN  [timestamps |-> ts, opens |-> r.open, closes |-> closes,
       lastClose |-> lastClose,
       lastPrice |-> Coalesce(r.regularMarketPrice, lastClose),
       tz |-> IF r.tz = "" THEN "America/New_York" ELSE r.tz]

(* --------------------------- Basis/Latest Resolver --------------------- *)
\* The loop of pickStartIndex from index j (counted from 0): the first index
\* whose local date is on or after the target, -1 when there is none.
RECURSIVE FirstOnOrAfter(_, _, _)
FirstOnOrAfter(ch, targetYMD, j) ==
  IF j >= Len(ch.timestamps) THEN -1
  ELSE IF Apply(LAMBDA ymd : StrGe(ymd, targetYMD), localYMD(ch.timestamps[j + 1], ch.tz)) THEN j
  ELSE FirstOnOrAfter(ch, targetYMD, j + 1)

\* What pickStartIndex returns for the index idx its loop ended with.
FoundOrFirst(idx) == IF idx = -1 THEN 0 ELSE idx
TargetYMD(tz, anchor, mentionTs, parts) ==
  IF anchor = "month" THEN monthFirstYMD(tz, Number(parts[1]), Number(parts[2]))
  ELSE localYMD(mentionTs, tz)
pickStartIndex(ch, anchor, mentionTs, selectedMonth) ==
  Apply(LAMBDA targetYMD : FoundOrFirst(FirstOnOrAfter(ch, targetYMD, 0)),
        Apply(LAMBDA parts : TargetYMD(ch.tz, anchor, mentionTs, parts), split(selectedMonth)))

\* Mutant: the loop scans the array from its beginning.
GapFillFromStart(arr, cur, j) ==
  IF IsFiniteValue(cur) THEN cur
  ELSE IF \E q \in 1..Len(arr) : IsFiniteValue(arr[q])
       THEN arr[CHOOSE q \in 1..Len(arr) :
                  IsFiniteValue(arr[q]) /\ \A r \in 1..(q - 1) : ~IsFiniteValue(arr[r])]
       ELSE cur
\* The gap-filling loop: cur is the value found so far, j the index the loop is at.
RECURSIVE GapFill(_, _, _)
GapFill(arr, cur, j) ==
  IF IsFiniteValue(cur) \/ j >= Len(arr) THEN cur
  ELSE IF IsFiniteValue(arr[j + 1]) THEN arr[j + 1]
  ELSE GapFill(arr, cur, j + 1)

\* The part of fetchBasisAndLatest after the series ch has arrived:
\* [ok |-> FALSE] when it throws, else basis and latest.
Thrown == [ok |-> FALSE, basis |-> JsUndef, latest |-> JsUndef]
\* The two checks and the choice of basis and latest, for the gap-filled
\* startOpen and startClose.
\* Mutant: the open and the last price are preferred in both modes.
ResolveFromOpenFirst(ch, mode, startOpen, startClose) ==
  IF ~IsPositive(startOpen) /\ ~IsPositive(startClose) THEN Thrown
  ELSE IF ~IsPositive(ch.lastPrice) /\ ~IsPositive(ch.lastClose) THEN Thrown
  ELSE [ok |-> TRUE, basis |-> Coalesce(startOpen, startClose),
        latest |-> Coalesce(ch.lastPrice, ch.lastClose)]
\* Mutant: the latest candidates are not checked.
ResolveFromUncheckedLatest(ch, mode, startOpen, startClose) ==
  IF ~IsPositive(startOpen) /\ ~IsPositive(startClose) THEN Thrown
  ELSE [ok |-> TRUE,
        basis  |-> IF mode = "cc" THEN Coalesce(startClose, startOpen)
                   ELSE Coalesce(startOpen, startClose),
        latest |-> IF mode = "cc" THEN Coalesce(ch.lastClose, ch.lastPrice)
                   ELSE Coalesce(ch.lastPrice, ch.lastClose)]
ResolveFrom(ch, mode, startOpen, startClose) ==
  IF ~IsPositive(startOpen) /\ ~IsPositive(startClose) THEN Thrown
  ELSE IF ~IsPositive(ch.lastPrice) /\ ~IsPositive(ch.lastClose) THEN Thrown
  ELSE [ok |-> TRUE,
        basis  |-> IF mode = "cc" THEN Coalesce(startClose, startOpen)
                   ELSE Coalesce(startOpen, startClose),
        latest |-> IF mode = "cc" THEN Coalesce(ch.lastClose, ch.lastPrice)
                   ELSE Coalesce(ch.lastPrice, ch.lastClose)]
ResolveAt(ch, mode, idx) ==
  ResolveFrom(ch, mode, GapFill(ch.opens, At(ch.opens, idx), idx),
                        GapFill(ch.closes, At(ch.closes, idx), idx))
ResolveOnSeries(ch, anchor, mode, mentionTs, selectedMonth) ==
  Apply(LAMBDA idx : ResolveAt(ch, mode, idx),
        pickStartIndex(ch, anchor, mentionTs, selectedMonth))

(* -------------------------------- Gain Ranker -------------------------- *)
\* A floating-point result: a ratio n / d with d > 0, NaN, Infinity or -Infinity.
Ratio(n, d) == [k |-> "num", n |-> n, d |-> d]
PctNaN == [k |-> "NaN", n |-> 0, d |-> 1]
PctInf == [k |-> "Inf", n |-> 0, d |-> 1]
PctNegInf == [k |-> "-Inf", n |-> 0, d |-> 1]

\* ((latest - basis) / basis) * 100 on numbers
Pct(basis, latest) ==
  IF basis.v > 0 THEN Ratio((latest.v - basis.v) * 100, basis.v)
  ELSE IF basis.v < 0 THEN Ratio((basis.v - latest.v) * 100, -basis.v)
  ELSE IF latest.v > 0 THEN PctInf
  ELSE IF latest.v < 0 THEN PctNegInf
  ELSE PctNaN

\* Sign of x - y on floating-point results; "NaN" when the difference is NaN.
DiffSign(x, y) ==
  IF x.k = "NaN" \/ y.k = "NaN" THEN "NaN"
  ELSE IF x.k = "Inf" THEN (IF y.k = "Inf" THEN "NaN" ELSE "pos")
  ELSE IF x.k = "-Inf" THEN (IF y.k = "-Inf" THEN "NaN" ELSE "neg")
  ELSE IF y.k = "Inf" THEN "neg"
  ELSE IF y.k = "-Inf" THEN "pos"
  ELSE IF x.n * y.d > y.n * x.d THEN "pos"
  ELSE IF x.n * y.d < y.n * x.d THEN "neg"
  ELSE "zero"

\* The comparator (a, b) => b.pct - a.pct as the sort reads it: a NaN is +0.
GainCompare(a, b) ==
  LET s == DiffSign(b.pct, a.pct)
  IN  IF s = "pos" THEN 1 ELSE IF s = "neg" THEN -1 ELSE 0

(* ------------------- Bounded-Concurrency Batch Fetcher ----------------- *)
\* A slot of the results array, and what a worker returns: nothing yet, null,
\* or the item with basis, latest and pct.
EmptySlot == [v |-> "empty", info |-> [symbol |-> "", firstTs |-> NaN],
              basis |-> JsUndef, latest |-> JsUndef, pct |-> PctNaN]
NullResult == [EmptySlot EXCEPT !.v = "null"]
GainResult(info, basis, latest) ==
  [v |-> "gain", info |-> info, basis |-> basis, latest |-> latest, pct |-> Pct(basis, latest)]

\* The body of the worker of computeGainers once the resolver has settled
\* with r: the item with its gain, or null when the resolver threw.
WorkerResult(info, r) ==
  IF r.ok THEN GainResult(info, r.basis, r.latest) ELSE NullResult

\* Mutant: a result is kept only if its pct is truthy.
BooleanOfPct(r) == r.v = "gain" /\ r.pct.k # "NaN" /\ ~(r.pct.k = "num" /\ r.pct.n = 0)
\* out.filter(Boolean)
Boolean(r) == r.v = "gain"
filterBoolean(rs) == SelectSeq(rs, Boolean)

\* The comparator is consistent on rs unless some difference of pcts is NaN.
ConsistentComparator(rs) ==
  \A x, y \in 1..Len(rs) : DiffSign(rs[y].pct, rs[x].pct) # "NaN"

RECURSIVE InsertGain(_, _)
InsertGain(sorted, x) ==
  IF Len(sorted) = 0 THEN <<x>>
  ELSE IF GainCompare(sorted[Len(sorted)], x) <= 0 THEN Append(sorted, x)
  ELSE Append(InsertGain(SubSeq(sorted, 1, Len(sorted) - 1), x), sorted[Len(sorted)])

RECURSIVE SortGains(_)
SortGains(rs) == IF Len(rs) = 0 THEN <<>>
                 ELSE Apply(LAMBDA sorted : InsertGain(sorted, rs[Len(rs)]),
                            SortGains(SubSeq(rs, 1, Len(rs) - 1)))

\* The orders Array.prototype.sort may leave rs in: the stable order of the
\* comparator when it is consistent, else any order (implementation-defined).
SortOutcomes(rs) ==
  IF ConsistentComparator(rs) THEN {SortGains(rs)}
  ELSE {[j \in 1..Len(rs) |-> rs[p[j]]] :
          p \in {q \in [1..Len(rs) -> 1..Len(rs)] : \A x, y \in 1..Len(rs) : q[x] = q[y] => x = y}}

\* The clamping of the options.
DefaultLimitTickers == 50
DefaultConcurrency == 3
MaxConcurrency == 10
ClampLimitTickers(limitTickers) == IF limitTickers <= 0 THEN DefaultLimitTickers ELSE limitTickers
\* Mutant: no ceiling on the concurrency.
ClampConcurrencyNoCeiling(concurrency) == IF concurrency <= 0 THEN DefaultConcurrency ELSE concurrency
ClampConcurrency(concurrency) ==
  LET c == IF concurrency <= 0 THEN DefaultConcurrency ELSE concurrency
  IN  IF c > MaxConcurrency THEN MaxConcurrency ELSE c

\* Mutant: the list is not truncated.
sliceNothing(its, limitTickers) == its
\* items.slice(0, limitTickers)
slice(its, limitTickers) ==
  SubSeq(its, 1, IF limitTickers < Len(its) THEN limitTickers ELSE Len(its))

(* ------------------------------- the inputs ---------------------------- *)
\* Longest item list of a batch, but for the one long batch.
MaxItems == 2
\* Length of the long batch: more items than the concurrency ceiling.
LongBatch == 11

T(y, mo, d, h, mi) == Ms(DaysFromCivil(y, mo, d), (h * 60 + mi) * 60000)
Sec(y, mo, d, h, mi) == [day |-> DaysFromCivil(y, mo, d), sec |-> (h * 60 + mi) * 60]

ItemPool == {[symbol |-> "AAA", firstTs |-> T(2024, 3, 1, 10, 0)],
             [symbol |-> "BBB", firstTs |-> T(2024, 3, 4, 9, 0)],
             [symbol |-> "CCC", firstTs |-> T(2024, 3, 20, 9, 0)]}
LongItem == [symbol |-> "ZZZ", firstTs |-> T(2024, 3, 5, 10, 0)]

\* The replies the market-data endpoint may give for a symbol.
Upstream(symbol) ==
  CASE symbol = "AAA" ->
         {FailedReply,
          [kind |-> "ok",
           timestamp |-> <<Sec(2024, 2, 29, 14, 30), Sec(2024, 3, 1, 14, 30), Sec(2024, 3, 4, 14, 30)>>,
           open |-> <<JsInt(10), JsNull, JsInt(12)>>,
           close |-> <<JsInt(11), JsInt(13), JsInt(11)>>,
           adjclose |-> <<>>, regularMarketPrice |-> JsInt(15), tz |-> "America/New_York"]}
    [] symbol = "BBB" ->
         {[kind |-> "ok",
           timestamp |-> <<Sec(2024, 3, 1, 0, 0), Sec(2024, 3, 4, 0, 0)>>,
           open |-> <<JsInt(0), JsInt(5)>>,
           close |-> <<JsInt(4), JsInt(6)>>,
           adjclose |-> <<>>, regularMarketPrice |-> JsInt(p), tz |-> "Asia/Tokyo"] : p \in {0, 7}}
    [] symbol = "ZZZ" ->
         {[kind |-> "ok",
           timestamp |-> <<Sec(2024, 3, 5, 14, 30)>>,
           open |-> <<JsInt(20)>>, close |-> <<>>,
           adjclose |-> <<JsInt(21)>>, regularMarketPrice |-> JsUndef, tz |-> ""]}
    [] OTHER -> {EmptyReply}

LimitTickersPool == {0, 1}
ConcurrencyPool == {0, 1, 2}
AnchorPool == {"month", "mention"}
ModePool == {"oc", "cc"}
SelectedMonthPool == {<<"2", "0", "2", "4", "-", "0", "3">>}
NowPool == {T(2024, 4, 15, 12, 0)}

RECURSIVE SeqsUpTo(_, _)
SeqsUpTo(S, n) ==
  IF n = 0 THEN {<<>>}
  ELSE SeqsUpTo(S, n - 1) \cup {Append(q, x) : q \in {r \in SeqsUpTo(S, n - 1) : Len(r) = n - 1}, x \in S}

Options(lt, c, an, mo, sm) ==
  [limitTickers |-> lt, concurrency |-> c, anchor |-> an, mode |-> mo, selectedMonth |-> sm]
OptionPool == {Options(lt, c, an, mo, sm) : lt \in LimitTickersPool, c \in ConcurrencyPool,
                 an \in AnchorPool, mo \in ModePool, sm \in SelectedMonthPool}

\* The calls of computeGainers: every short list under every option, and the
\* long batch under a concurrency above the ceiling.
CallPool ==
  (SeqsUpTo(ItemPool, MaxItems) \X OptionPool)
    \cup {<<[j \in 1..LongBatch |-> LongItem],
            Options(0, LongBatch, "mention", "oc", sm)>> : sm \in SelectedMonthPool}

(* -------------------------------- state ------------------------------- *)
VARIABLES
  entries,    \* the mention store: the records loadDb returns
  agg,        \* the last buildMonthAgg call: its arguments and what it returned
  avail,      \* the last getAvailableMonths call: its argument and what it returned
  now,        \* Date.now()
  chartCache, \* the price series cache: key -> series
  phase,      \* of the computeGainers call: "idle", "running", "resolved"
  items,      \* the item list of the call
  args,       \* the options of the call
  subset,     \* the truncated item list
  limit,      \* mapLimit's limit
  i,          \* mapLimit's i: the items handed to a worker so far
  active,     \* mapLimit's active
  results,    \* mapLimit's results
  workers,    \* per item of subset: where its worker stands
  out,        \* what computeGainers returned
  gap,        \* a run of the gap-filling loop: the array, the start index, the result
  disk,       \* the mention store on disk: missing, unreadable, or a file and its text
  loaded,     \* the last loadDb call: what it returned and what the caller took from it
  config,     \* monthly scores: SCORES_TRIGGER_TOKEN, LOG_CHANNEL_ID, SCORE_CHANNEL_ID
  listening,  \* whether the MessageCreate listener is registered
  survey,     \* the messages posted to the score channel and the open windows
  last,       \* the last channel message handled and the survey action it ran
  handled,    \* how many channel messages were handled
  resolveCall, \* a run of the resolver on a series: its arguments, locals and outcome
  fetchCall,  \* one getYahooChart call: its arguments, its range and key, the reply, what it returned
  scoreFile,  \* monthly scores: the entries of the period's score file
  addCalls,   \* the addScore calls made so far, each with its position and locals
  logFile,    \* live log: the records of the channel's daily files in the bucket
  appendCalls, \* the appendToLog calls made so far
  backfill,   \* the backfillLastDayMessages run: its position, buckets and uploads
  git,        \* the work tree, the remote and the commitLogIfChanged call
  metricState, \* dashboard: the selections stored per message and user
  dash        \* the last dashboard interaction handled

aggVars == <<entries, agg, avail>>
batchVars == <<now, chartCache, phase, items, args, subset, limit, i, active, results, workers, out>>
gapVars == <<gap>>
dbVars == <<disk, loaded>>
scoreVars == <<config, listening, survey, last, handled>>
callVars == <<resolveCall, fetchCall>>
ioVars == <<scoreFile, addCalls, logFile, appendCalls, backfill, git, metricState, dash>>
restVars == <<gapVars, dbVars, scoreVars, callVars, ioVars>>
vars == <<entries, agg, avail, now, chartCache, phase, items, args, subset, limit, i, active,
          results, workers, out, gap, disk, loaded, config, listening, survey, last, handled,
          resolveCall, fetchCall, scoreFile, addCalls, logFile, appendCalls, backfill, git,
          metricState, dash>>

NoAgg == [called |-> FALSE, entries |-> <<>>, month |-> <<>>,
          byTicker |-> EmptyMap, firstByUserCounts |-> EmptyMap]
NoAvail == [called |-> FALSE, entries |-> <<>>, months |-> <<>>]
NoArgs == Options(0, 0, "", "", <<>>)
NoSeries == [timestamps |-> <<>>, opens |-> <<>>, closes |-> <<>>,
             lastClose |-> JsUndef, lastPrice |-> JsUndef, tz |-> ""]
EmptyCache == [key \in {} |-> NoSeries]
\* chartCache.set(key, series)
CacheSet(cache, key, series) ==
  [x \in DOMAIN cache \cup {key} |-> IF x = key THEN series ELSE cache[x]]
\* The cache when a call starts: empty, or holding a series of AAA that an
\* earlier call stored.
CachePool ==
  {EmptyCache} \cup {CacheSet(EmptyCache, CacheKey("AAA", "3mo"), ParseChart(r)) :
                       r \in {x \in Upstream("AAA") : x.kind = "ok"}}

\* No run of the gap-filling loop on its own.
NoGap == [called |-> FALSE, arr |-> <<>>, idx |-> 0, out |-> JsUndef]
GapIdle == gap = NoGap
\* JavaScript values as JSON.parse yields them: t is "array", "object",
\* "null", "number" or "undefined"; items are the elements of an array; has
\* tells whether an object has the property entries, and entries is its value.
JsArray(elems) == [t |-> "array", items |-> elems, has |-> FALSE, n |-> 0]
JsUndefined == [t |-> "undefined", items |-> <<>>, has |-> FALSE, n |-> 0]
JsNullValue == [t |-> "null", items |-> <<>>, has |-> FALSE, n |-> 0]
JsNumber(n) == [t |-> "number", items |-> <<>>, has |-> FALSE, n |-> n]
\* An object: with the property entries holding the array items, or without it.
JsObject(own, elems) == [t |-> "object", items |-> elems, has |-> own, n |-> 0]
\* The text of a file, by what it spells: form is "empty" (no character),
\* "invalid" (not JSON), "array", "object" (with entries), "bare" (an object
\* without entries), "null" or "number".
Text(form, elems, n) == [form |-> form, items |-> elems, n |-> n]
MissingStore == [state |-> "missing", raw |-> Text("empty", <<>>, 0)]
NoLoad == [called |-> FALSE, db |-> JsUndefined, entries |-> JsUndefined]
DbIdle == disk = MissingStore /\ loaded = NoLoad
\* The monthly scores module before anything is configured or received.
NoConfig == [token |-> <<>>, logChannel |-> "", scoreChannel |-> ""]
NoSurvey == [posts |-> 0, windows |-> {}]
NoMessage == [msg |-> [webhook |-> FALSE, channel |-> "", content |-> <<>>],
              executed |-> "none"]
ScoresIdle ==
  /\ config = NoConfig /\ listening = FALSE /\ survey = NoSurvey
  /\ last = NoMessage /\ handled = 0
\* No run of the resolver or of the range choice on its own.
NoResolveCall ==
  [called |-> FALSE, reply |-> FailedReply, anchor |-> "", mode |-> "", mentionTs |-> NaN,
   selectedMonth |-> <<>>, ch |-> NoSeries, idx |-> 0, startOpen |-> JsUndef,
   startClose |-> JsUndef, outcome |-> Thrown]
\* A field of the upstream payload: missing, present and not an array (a
\* text), or an array.
Missing == [k |-> "missing", v |-> <<>>]
NotArray == [k |-> "text", v |-> <<>>]
RawArray(v) == [k |-> "array", v |-> v]
\* The body of an upstream response: kind "fail" (the request fails), "na"
\* (no result[0]) or "ok" with the fields of result[0].
NoPayload ==
  [kind |-> "fail", timestamp |-> Missing, open |-> Missing, close |-> Missing,
   adjclose |-> Missing, regularMarketPrice |-> JsUndef, tz |-> ""]
NoFetchCall ==
  [st |-> "idle", symbol |-> "", nowMs |-> NaN, fromTsMs |-> NaN, days |-> 0, range |-> "",
   key |-> <<"", "">>, before |-> EmptyCache, requests |-> 0, payload |-> NoPayload,
   series |-> NoSeries]
CallsIdle == resolveCall = NoResolveCall /\ fetchCall = NoFetchCall
\* The daily files of the model: two days of one channel.
LogDays == {1, 2}
NoLogs == [d \in LogDays |-> <<>>]
NoBackfill ==
  [st |-> "idle", runs |-> 0, prev |-> "none", channel |-> <<>>, pos |-> 0, pageEnd |-> 0,
   buckets |-> EmptyMap, w |-> 0, uploads |-> 0]
NoGit ==
  [st |-> "idle", calls |-> 0, dirty |-> FALSE, staged |-> FALSE, local |-> 0,
   remote |-> 0, ahead |-> FALSE, found |-> FALSE, made |-> FALSE, pushed |-> FALSE,
   ret |-> "none"]
NoInteraction == [cid |-> "", messageId |-> <<>>, userId |-> <<>>, value |-> "", ok |-> FALSE]
NoDash == [n |-> 0, pending |-> <<>>, served |-> 0, last |-> NoInteraction]
AddIdle == scoreFile = <<>> /\ addCalls = <<>>
LogIdle == logFile = NoLogs /\ appendCalls = <<>> /\ backfill = NoBackfill
GitIdle == git = NoGit
DashIdle == metricState = EmptyMap /\ dash = NoDash
IoIdle == AddIdle /\ LogIdle /\ GitIdle /\ DashIdle
RestInit == GapIdle /\ DbIdle /\ ScoresIdle /\ CallsIdle /\ IoIdle

AggInit == entries = <<>> /\ agg = NoAgg /\ avail = NoAvail
BatchInit ==
  /\ now \in NowPool
  /\ chartCache = EmptyCache
  /\ phase = "idle" /\ items = <<>> /\ args = NoArgs /\ subset = <<>> /\ limit = 0
  /\ i = 0 /\ active = 0 /\ results = <<>> /\ workers = <<>> /\ out = <<>>

Init == AggInit /\ BatchInit /\ RestInit
\* A call made later in the life of the process finds what earlier calls
\* stored.
WarmInit ==
  /\ AggInit /\ RestInit
  /\ now \in NowPool
  /\ chartCache \in CachePool
  /\ phase = "idle" /\ items = <<>> /\ args = NoArgs /\ subset = <<>> /\ limit = 0
  /\ i = 0 /\ active = 0 /\ results = <<>> /\ workers = <<>> /\ out = <<>>

(* --------------------------- requests on the store --------------------- *)
\* A mention is logged (the storage layer appends it to the store).  A
\* behaviour follows one request: what a request returns depends only on the
\* records it loaded, so the store is filled first and the request is served
\* on it.
AppendEntry(e) ==
  /\ Len(entries) < MaxEntries
  /\ ~agg.called /\ ~avail.called
  /\ entries' = Append(entries, e)
  /\ UNCHANGED <<agg, avail>>
  /\ UNCHANGED <<batchVars, restVars>>

\* showTickersDashboard: the months of the store, then the aggregate of month m.
ShowTickersDashboard(m) ==
  /\ ~agg.called /\ ~avail.called
  /\ avail' = [called |-> TRUE, entries |-> entries, months |-> getAvailableMonths(entries)]
  /\ agg' = LET r == buildMonthAgg(entries, m)
             IN  [called |-> TRUE, entries |-> entries, month |-> m,
                  byTicker |-> r.byTicker, firstByUserCounts |-> r.firstByUserCounts]
  /\ UNCHANGED entries
  /\ UNCHANGED <<batchVars, restVars>>

\* handleDashboardInteraction: the aggregate of the selected month m.
HandleDashboardInteraction(m) ==
  /\ ~agg.called /\ ~avail.called
  /\ agg' = LET r == buildMonthAgg(entries, m)
             IN  [called |-> TRUE, entries |-> entries, month |-> m,
                  byTicker |-> r.byTicker, firstByUserCounts |-> r.firstByUserCounts]
  /\ UNCHANGED <<entries, avail>>
  /\ UNCHANGED <<batchVars, restVars>>

AggNext ==
  \/ \E e \in EntryPool : AppendEntry(e)
  \/ \E m \in MonthPool : ShowTickersDashboard(m)
  \/ \E m \in MonthPool : HandleDashboardInteraction(m)

SpecAgg == Init /\ [][AggNext]_vars

\* Stores whose tickers were written with white space around them: the
\* same symbol bare, with a leading space, in another case with a trailing
\* space, and a ticker that is a single space.
SpacedEntryPool ==
  {[ticker |-> Str(<<"a", "b">>), timestamp |-> TimestampPool[1],
    link |-> "l51", user |-> UserPool[1]],
   [ticker |-> Str(<<" ", "a", "b">>), timestamp |-> TimestampPool[2],
    link |-> "l52", user |-> UserPool[2]],
   [ticker |-> Str(<<"A", "b", " ">>), timestamp |-> TimestampPool[1],
    link |-> "l53", user |-> UserPool[2]],
   [ticker |-> Str(<<" ">>), timestamp |-> TimestampPool[1],
    link |-> "l54", user |-> UserPool[1]]}
SpacedInit ==
  /\ entries \in SeqsUpTo(SpacedEntryPool, MaxEntries)
  /\ agg = NoAgg /\ avail = NoAvail
  /\ BatchInit /\ RestInit
SpacedNext ==
  \/ \E m \in MonthPool : ShowTickersDashboard(m)
  \/ \E m \in MonthPool : HandleDashboardInteraction(m)
SpecSpaced == SpacedInit /\ [][SpacedNext]_vars

(* ------------------------------ computeGainers ------------------------- *)
\* Where the worker of an item stands: "idle" (not started), "fetching" (its
\* upstream request is in flight), "hit" (the cached series was returned and
\* the resolver resumes with it), "settled" (the resolver has settled and the
\* worker has returned res; its then/catch/finally callbacks are queued),
\* "done" (the callbacks have run).
IdleWorker == [st |-> "idle", key |-> <<"", "">>, ch |-> NoSeries, res |-> EmptySlot,
               resolver |-> "none", requests |-> 0]

\* The UTC start of the selected month.
SelectedMonthStart(selectedMonth) ==
  Apply(LAMBDA parts : startOfMonthUTC(Number(parts[1]), Number(parts[2])), split(selectedMonth))

\* The synchronous start of the worker of item info: fetchBasisAndLatest calls
\* getYahooChart, which returns the cached series of its key or sends the
\* upstream request.
\* Mutant: the request is issued without consulting the cache.
GetOrFetchUncached(cache, key) ==
  [IdleWorker EXCEPT !.st = "fetching", !.key = key, !.requests = 1]
\* getYahooChart up to its first await: the cached series on a hit, an
\* upstream request on a miss.
GetOrFetch(cache, key) ==
  IF key \in DOMAIN cache
  THEN [IdleWorker EXCEPT !.st = "hit", !.key = key, !.ch = cache[key]]
  ELSE [IdleWorker EXCEPT !.st = "fetching", !.key = key, !.requests = 1]
FromTs(info, a) ==
  IF a.anchor = "month" THEN SelectedMonthStart(a.selectedMonth) ELSE info.firstTs
StartWorker(info, a, cache, nowMs) ==
  Apply(LAMBDA key : GetOrFetch(cache, key),
        CacheKey(info.symbol, RangeOf(nowMs, FromTs(info, a))))

\* Mutant: next() starts one worker at most.
WorkersToStartOne(act, lim, started, n) ==
  IF lim - act <= 0 \/ n - started <= 0 THEN 0 ELSE 1
\* Mutant: next() starts nothing.
WorkersToStartNone(act, lim, started, n) == 0
\* How many workers the loop of next() starts.
WorkersToStart(act, lim, started, n) ==
  LET room == lim - act
      left == n - started
  IN  IF room <= 0 \/ left <= 0 THEN 0 ELSE IF room < left THEN room ELSE left

\* next(): the workers after the loop has started k more of them.
StartedWorkers(ws, its, a, started, k, cache, nowMs) ==
  [j \in 1..Len(ws) |->
     IF j > started /\ j <= started + k THEN StartWorker(its[j], a, cache, nowMs) ELSE ws[j]]

MicrotaskPending == \E j \in 1..Len(workers) : workers[j].st \in {"hit", "settled"}

\* computeGainers(its, a) up to its first await: the empty list returns at
\* once; else the options are clamped, the list is truncated and mapLimit
\* starts its first workers.
\* Mutant: the call without its test for an empty list.
ComputeGainersUnguarded(its, a) ==
  /\ phase = "idle"
  /\ items' = its
  /\ args' = a
  /\ LET sub == slice(its, ClampLimitTickers(a.limitTickers))
         lim == ClampConcurrency(a.concurrency)
         k   == WorkersToStart(0, lim, 0, Len(sub))
     IN  /\ phase' = "running"
         /\ subset' = sub
         /\ limit' = lim
         /\ results' = [j \in 1..Len(sub) |-> EmptySlot]
         /\ workers' = StartedWorkers([j \in 1..Len(sub) |-> IdleWorker], sub, a, 0, k,
                                      chartCache, now)
         /\ i' = k
         /\ active' = k
         /\ out' = <<>>
  /\ UNCHANGED <<now, chartCache>>
  /\ UNCHANGED <<aggVars, restVars>>
ComputeGainers(its, a) ==
  /\ phase = "idle"
  /\ items' = its
  /\ args' = a
  /\ IF Len(its) = 0
     THEN /\ phase' = "resolved"
          /\ out' = <<>>
          /\ UNCHANGED <<subset, limit, i, active, results, workers>>
     ELSE LET sub == slice(its, ClampLimitTickers(a.limitTickers))
              lim == ClampConcurrency(a.concurrency)
              k   == WorkersToStart(0, lim, 0, Len(sub))
          IN  /\ phase' = "running"
              /\ subset' = sub
              /\ limit' = lim
              /\ results' = [j \in 1..Len(sub) |-> EmptySlot]
              /\ workers' = StartedWorkers([j \in 1..Len(sub) |-> IdleWorker], sub, a, 0, k,
                                           chartCache, now)
              /\ i' = k
              /\ active' = k
              /\ out' = <<>>
  /\ UNCHANGED <<now, chartCache>>
  /\ UNCHANGED <<aggVars, restVars>>

\* The resolver of item idx settles on series ch: the worker returns.
SettledWith(w, ch, res) ==
  [w EXCEPT !.st = "settled", !.ch = ch, !.res = res,
            !.resolver = IF res.v = "gain" THEN "ok" ELSE "failed"]
SettledOn(w, info, ch, a) ==
  Apply(LAMBDA r : SettledWith(w, ch, WorkerResult(info, r)),
        ResolveOnSeries(ch, a.anchor, a.mode, info.firstTs, a.selectedMonth))
SettledFailed(w) == SettledWith(w, w.ch, NullResult)

\* The upstream request of item idx is answered: getYahooChart rejects, or
\* parses and stores the series, and the resolver goes on with it.
\* Mutant: a rejected fetch leaves an empty series under its key.
RespondStoringFailure(idx, reply) ==
  /\ phase = "running"
  /\ workers[idx].st = "fetching"
  /\ ~MicrotaskPending
  /\ IF reply.kind = "ok"
     THEN \E ch \in {ParseChart(reply)} :
            /\ chartCache' = CacheSet(chartCache, workers[idx].key, ch)
            /\ workers' = [workers EXCEPT ![idx] = SettledOn(@, subset[idx], ch, args)]
     ELSE /\ workers' = [workers EXCEPT ![idx] = SettledFailed(@)]
          /\ chartCache' = CacheSet(chartCache, workers[idx].key, NoSeries)
  /\ UNCHANGED <<now, phase, items, args, subset, limit, i, active, results, out>>
  /\ UNCHANGED <<aggVars, restVars>>
Respond(idx, reply) ==
  /\ phase = "running"
  /\ workers[idx].st = "fetching"
  /\ ~MicrotaskPending
  /\ IF reply.kind = "ok"
     THEN \E ch \in {ParseChart(reply)} :
            /\ chartCache' = CacheSet(chartCache, workers[idx].key, ch)
            /\ workers' = [workers EXCEPT ![idx] = SettledOn(@, subset[idx], ch, args)]
     ELSE /\ workers' = [workers EXCEPT ![idx] = SettledFailed(@)]
          /\ UNCHANGED chartCache
  /\ UNCHANGED <<now, phase, items, args, subset, limit, i, active, results, out>>
  /\ UNCHANGED <<aggVars, restVars>>

\* The resolver of item idx resumes with the series the cache returned.
\* Mutant: a resolver that drops the series it was handed from the cache.
ResumeHitEvicting(idx) ==
  /\ phase = "running"
  /\ workers[idx].st = "hit"
  /\ \E w \in {workers[idx]}, it \in {subset[idx]} :
       workers' = [workers EXCEPT ![idx] = SettledOn(w, it, w.ch, args)]
  /\ chartCache' = EmptyCache
  /\ UNCHANGED <<now, phase, items, args, subset, limit, i, active, results, out>>
  /\ UNCHANGED <<aggVars, restVars>>
ResumeHit(idx) ==
  /\ phase = "running"
  /\ workers[idx].st = "hit"
  /\ \E w \in {workers[idx]}, it \in {subset[idx]} :
       workers' = [workers EXCEPT ![idx] = SettledOn(w, it, w.ch, args)]
  /\ UNCHANGED <<now, chartCache, phase, items, args, subset, limit, i, active, results, out>>
  /\ UNCHANGED <<aggVars, restVars>>

\* The then/catch/finally callbacks of item idx: the result is stored, active
\* drops, and the batch resolves (computeGainers filters, sorts and returns)
\* or next() starts the next workers.
\* Mutant: the result goes to the first slot that is still empty.
FinallyInCompletionOrder(idx) ==
  /\ phase = "running"
  /\ workers[idx].st = "settled"
  /\ LET slot == CHOOSE j \in 1..Len(results) :
                   results[j].v = "empty" /\ \A h \in 1..(j - 1) : results[h].v # "empty"
         rs  == [results EXCEPT ![slot] = workers[idx].res]
         act == active - 1
         ws  == [workers EXCEPT ![idx].st = "done"]
     IN  /\ results' = rs
         /\ IF i >= Len(subset) /\ act = 0
            THEN /\ phase' = "resolved"
                 /\ out' \in SortOutcomes(filterBoolean(rs))
                 /\ workers' = ws
                 /\ active' = act
                 /\ i' = i
            ELSE LET k == WorkersToStart(act, limit, i, Len(subset))
                 IN  /\ workers' = StartedWorkers(ws, subset, args, i, k, chartCache, now)
                     /\ i' = i + k
                     /\ active' = act + k
                     /\ UNCHANGED <<phase, out>>
  /\ UNCHANGED <<now, chartCache, items, args, subset, limit>>
  /\ UNCHANGED <<aggVars, restVars>>
Finally(idx) ==
  /\ phase = "running"
  /\ workers[idx].st = "settled"
  /\ LET rs  == [results EXCEPT ![idx] = workers[idx].res]
         act == active - 1
         ws  == [workers EXCEPT ![idx].st = "done"]
     IN  /\ results' = rs
         /\ IF i >= Len(subset) /\ act = 0
            THEN /\ phase' = "resolved"
                 /\ out' \in SortOutcomes(filterBoolean(rs))
                 /\ workers' = ws
                 /\ active' = act
                 /\ i' = i
            ELSE LET k == WorkersToStart(act, limit, i, Len(subset))
                 IN  /\ workers' = StartedWorkers(ws, subset, args, i, k, chartCache, now)
                     /\ i' = i + k
                     /\ active' = act + k
                     /\ UNCHANGED <<phase, out>>
  /\ UNCHANGED <<now, chartCache, items, args, subset, limit>>
  /\ UNCHANGED <<aggVars, restVars>>

BatchStep ==
  \/ \E idx \in 1..Len(workers) : \E reply \in Upstream(subset[idx].symbol) : Respond(idx, reply)
  \/ \E idx \in 1..Len(workers) : ResumeHit(idx)
  \/ \E idx \in 1..Len(workers) : Finally(idx)

Next ==
  \/ \E call \in CallPool : ComputeGainers(call[1], call[2])
  \/ BatchStep

Spec == Init /\ [][Next]_vars
SpecWarm == WarmInit /\ [][Next]_vars

\* Every upstream request is answered and every queued callback runs.
FairSpec == Spec /\ WF_vars(BatchStep)

\* mapLimit(its, lim, worker) called on its own, the worker being the one
\* computeGainers passes under the options a: the result array is made and
\* next() starts the first workers.
MapLimit(its, lim, a) ==
  /\ phase = "idle"
  /\ items' = its
  /\ args' = a
  /\ LET k == WorkersToStart(0, lim, 0, Len(its))
     IN  /\ phase' = "running"
         /\ subset' = its
         /\ limit' = lim
         /\ results' = [j \in 1..Len(its) |-> EmptySlot]
         /\ workers' = StartedWorkers([j \in 1..Len(its) |-> IdleWorker], its, a, 0, k,
                                      chartCache, now)
         /\ i' = k
         /\ active' = k
         /\ out' = <<>>
  /\ UNCHANGED <<now, chartCache>>
  /\ UNCHANGED <<aggVars, restVars>>
MapLimitNext ==
  \/ \E its \in SeqsUpTo(ItemPool, MaxItems), lim \in {1, 2}, mo \in ModePool,
        sm \in SelectedMonthPool : MapLimit(its, lim, Options(0, lim, "mention", mo, sm))
  \/ BatchStep
\* mapLimit on its own, every request answered and every callback run.
FairMapLimit == Init /\ [][MapLimitNext]_vars /\ WF_vars(BatchStep)

(* ------------------------- the gap-filling loop ------------------------ *)
\* The longest open/close array, and the values an array holds: the upstream
\* reply is JSON, so a price is a number or null.
MaxSeries == 3
PricePool == {JsNull, JsInt(0), JsInt(7)}
\* pickStartIndex returns an index of the timestamps; the price array may be
\* shorter than the timestamps.
GapPool == {[called |-> FALSE, arr |-> a, idx |-> x, out |-> JsUndef] :
              a \in SeqsUpTo(PricePool, MaxSeries), x \in 0..MaxSeries}
GapInit == AggInit /\ BatchInit /\ gap \in GapPool /\ DbIdle /\ ScoresIdle /\ CallsIdle /\ IoIdle

\* let start = arr[idx]; for (let j = idx; ...) {...}
FillGap ==
  /\ ~gap.called
  /\ gap' = [gap EXCEPT !.called = TRUE,
                        !.out = GapFill(gap.arr, At(gap.arr, gap.idx), gap.idx)]
  /\ UNCHANGED <<aggVars, batchVars, dbVars, scoreVars, callVars, ioVars>>

GapNext == FillGap
SpecGap == GapInit /\ [][GapNext]_vars

(* ----------------------- the resolver on a series ---------------------- *)
\* The longest series, the trading days its timestamps are taken from (a
\* Thursday, a Friday and the following Monday, at 14:30Z) and the quotes.
MaxPoints == 2
TradingDays == <<Sec(2024, 2, 29, 14, 30), Sec(2024, 3, 1, 14, 30), Sec(2024, 3, 4, 14, 30)>>
Ascending(q) == \A x \in 1..Len(q) : \A y \in 1..Len(q) : x < y => q[x] < q[y]
TimestampLists ==
  {[j \in 1..Len(q) |-> TradingDays[q[j]]] :
     q \in {r \in SeqsUpTo(1..Len(TradingDays), MaxPoints) : Ascending(r)}}
OpenPool == {JsNull, JsInt(0), JsInt(7)}
ClosePool == {JsNull, JsInt(0), JsInt(9)}
QuotesOfLength(S, n) == {q \in SeqsUpTo(S, n) : Len(q) = n}
SeriesReplyPool ==
  UNION {{[kind |-> "ok", timestamp |-> ts, open |-> o, close |-> c, adjclose |-> <<>>,
           regularMarketPrice |-> p, tz |-> z] :
            o \in QuotesOfLength(OpenPool, Len(ts)), c \in QuotesOfLength(ClosePool, Len(ts)),
            p \in {JsUndef, JsInt(0), JsInt(15)}, z \in {"America/New_York", "Asia/Tokyo"}} :
         ts \in TimestampLists}
\* A mention on Friday evening UTC (already Saturday in Tokyo) and one after
\* the last trading day.
MentionPool == {T(2024, 3, 1, 16, 0), T(2024, 3, 5, 0, 0)}
ResolveInit ==
  /\ AggInit /\ BatchInit /\ GapIdle /\ DbIdle /\ ScoresIdle /\ IoIdle
  /\ fetchCall = NoFetchCall
  /\ resolveCall \in
       {[NoResolveCall EXCEPT !.reply = r, !.anchor = a, !.mode = m, !.mentionTs = t,
                              !.selectedMonth = sm] :
          r \in SeriesReplyPool \cup {FailedReply, EmptyReply}, a \in AnchorPool, m \in ModePool, t \in MentionPool,
          sm \in SelectedMonthPool}

\* fetchBasisAndLatest on the reply of the upstream: it rejects when
\* getYahooChart does, and goes on with the series otherwise.
ResolveOnReply ==
  /\ ~resolveCall.called
  /\ IF resolveCall.reply.kind # "ok"
     THEN resolveCall' = [resolveCall EXCEPT !.called = TRUE, !.outcome = Thrown]
     ELSE \E ch \in {ParseChart(resolveCall.reply)} :
            \E idx \in {pickStartIndex(ch, resolveCall.anchor, resolveCall.mentionTs,
                                        resolveCall.selectedMonth)} :
              resolveCall' =
                [resolveCall EXCEPT
                   !.called = TRUE, !.ch = ch, !.idx = idx,
                   !.startOpen = GapFill(ch.opens, At(ch.opens, idx), idx),
                   !.startClose = GapFill(ch.closes, At(ch.closes, idx), idx),
                   !.outcome = ResolveAt(ch, resolveCall.mode, idx)]
  /\ UNCHANGED <<aggVars, batchVars, gapVars, dbVars, scoreVars, fetchCall, ioVars>>

ResolveNext == ResolveOnReply
SpecResolve == ResolveInit /\ [][ResolveNext]_vars

(* --------------------------- one getYahooChart call -------------------- *)
\* x || []
OrEmptyArray(x) == IF x.k = "missing" THEN RawArray(<<>>) ELSE x
\* closes after the fall-back to the adjusted closes.
ClosesOf(p) ==
  IF OrEmptyArray(p.close).k = "array" /\ Len(OrEmptyArray(p.close).v) = 0
       /\ p.adjclose.k # "missing"
  THEN p.adjclose ELSE OrEmptyArray(p.close)
\* The reply with every missing array replaced by the empty one.
ReplyOf(p) ==
  [kind |-> "ok", timestamp |-> OrEmptyArray(p.timestamp).v, open |-> OrEmptyArray(p.open).v,
   close |-> OrEmptyArray(p.close).v, adjclose |-> p.adjclose.v,
   regularMarketPrice |-> p.regularMarketPrice, tz |-> p.tz]
\* getYahooChart throws on the payload: the request failed, result[0] is
\* absent, timestamp has no map method, or closes or opens is no array.
Rejects(p) ==
  \/ p.kind # "ok"
  \/ OrEmptyArray(p.timestamp).k # "array"
  \/ ClosesOf(p).k # "array"
  \/ OrEmptyArray(p.open).k # "array"

\* Day offsets of the from timestamp before now.
DayOffsets == {-1, 0, 1, 29, 30, 31, 62, 63, 365, 366, 370, 371, 2000}
FetchNowPool == {T(2024, 4, 15, 12, 0), T(2024, 3, 15, 12, 0)}
FromPool(nowMs) ==
  {Ms(nowMs.day - k, ms) : k \in DayOffsets, ms \in {0, nowMs.ms, MsPerDay - 1}}
    \cup {NaN, Ms(0, 0)}
PayloadPool ==
  {NoPayload, [NoPayload EXCEPT !.kind = "na"]}
    \cup {[NoPayload EXCEPT !.kind = "ok", !.timestamp = ts, !.open = o, !.close = c,
                            !.adjclose = a] :
            ts \in {Missing, NotArray, RawArray(<<Sec(2024, 3, 1, 14, 30)>>)},
            o \in {Missing, NotArray, RawArray(<<JsInt(7)>>)},
            c \in {Missing, NotArray, RawArray(<<>>), RawArray(<<JsInt(9)>>)},
            a \in {Missing, RawArray(<<JsInt(8)>>)}}

FetchInit ==
  /\ AggInit /\ GapIdle /\ DbIdle /\ ScoresIdle /\ IoIdle
  /\ resolveCall = NoResolveCall /\ fetchCall = NoFetchCall
  /\ now \in NowPool /\ chartCache \in CachePool
  /\ phase = "idle" /\ items = <<>> /\ args = NoArgs /\ subset = <<>> /\ limit = 0
  /\ i = 0 /\ active = 0 /\ results = <<>> /\ workers = <<>> /\ out = <<>>

\* getYahooChart(symbol, fromTsMs) up to its await: the range, the key and
\* the look-up in the cache. Both Date.now() of the expression read nowMs.
CallGetYahooChart(symbol, nowMs, fromTsMs) ==
  /\ fetchCall.st = "idle"
  /\ \E days \in {AtLeastOne(ElapsedDays(nowMs, FromOrNow(fromTsMs, nowMs)))} :
       \E key \in {CacheKey(symbol, RangeOfDays(days))} :
         fetchCall' =
           [fetchCall EXCEPT
              !.symbol = symbol, !.nowMs = nowMs, !.fromTsMs = fromTsMs, !.days = days,
              !.range = RangeOfDays(days), !.key = key, !.before = chartCache,
              !.st = IF key \in DOMAIN chartCache THEN "returned" ELSE "pending",
              !.requests = IF key \in DOMAIN chartCache THEN 0 ELSE 1,
              !.series = IF key \in DOMAIN chartCache THEN chartCache[key] ELSE NoSeries]
  /\ UNCHANGED <<aggVars, gapVars, dbVars, scoreVars, resolveCall, ioVars>>
  /\ UNCHANGED batchVars

\* The rest of getYahooChart once the request is answered with payload p.
ReplyGetYahooChart(p) ==
  /\ fetchCall.st = "pending"
  /\ IF Rejects(p)
     THEN /\ fetchCall' = [fetchCall EXCEPT !.st = "rejected", !.payload = p]
          /\ UNCHANGED chartCache
     ELSE \E ch \in {ParseChart(ReplyOf(p))} :
            /\ fetchCall' = [fetchCall EXCEPT !.st = "returned", !.payload = p, !.series = ch]
            /\ chartCache' = CacheSet(chartCache, fetchCall.key, ch)
  /\ UNCHANGED <<aggVars, gapVars, dbVars, scoreVars, resolveCall, ioVars>>
  /\ UNCHANGED <<now, phase, items, args, subset, limit, i, active, results, workers, out>>

FetchNext ==
  \/ \E symbol \in {"AAA", "BBB"}, nowMs \in FetchNowPool :
       \E fromTsMs \in FromPool(nowMs) : CallGetYahooChart(symbol, nowMs, fromTsMs)
  \/ \E p \in PayloadPool : ReplyGetYahooChart(p)
SpecFetch == FetchInit /\ [][FetchNext]_vars

(* ------------------------------- loadDb -------------------------------- *)
\* The longest stored list of records.
MaxStored == 2
TextPool ==
  {Text("empty", <<>>, 0), Text("invalid", <<>>, 0), Text("bare", <<>>, 0),
   Text("null", <<>>, 0), Text("number", <<>>, 0), Text("number", <<>>, 5)}
    \cup {Text(f, es, 0) : f \in {"array", "object"}, es \in SeqsUpTo(EntryPool, MaxStored)}
DiskPool ==
  {MissingStore, [state |-> "unreadable", raw |-> Text("empty", <<>>, 0)]}
    \cup {[state |-> "file", raw |-> r] : r \in TextPool}

\* fs.readFile rejects when the file is missing or cannot be read.
ReadFileRejects(d) == d.state # "file"
\* raw || "{}"
TextOrEmptyObject(raw) == IF raw.form = "empty" THEN Text("bare", <<>>, 0) ELSE raw
\* JSON.parse throws on the empty text and on text that is not JSON.
JsonParseThrows(text) == text.form \in {"empty", "invalid"}
JsonParse(text) ==
  CASE text.form = "array" -> JsArray(text.items)
    [] text.form = "object" -> JsObject(TRUE, text.items)
    [] text.form = "bare" -> JsObject(FALSE, <<>>)
    [] text.form = "null" -> JsNullValue
    [] text.form = "number" -> JsNumber(text.n)
\* Array.isArray(v)
IsArray(v) == v.t = "array"
\* The truthiness of a parsed value.
TruthyValue(v) == v.t \in {"array", "object"} \/ (v.t = "number" /\ v.n # 0)
\* { entries: [] }
DefaultDb == JsObject(TRUE, <<>>)
\* db || { entries: [] }
OrDefault(db) == IF TruthyValue(db) THEN db ELSE DefaultDb
\* Array.isArray(db) ? { entries: db } : db || { entries: [] }
WrapDb(db) == IF IsArray(db) THEN JsObject(TRUE, db.items) ELSE OrDefault(db)
loadDb(d) ==
  IF ReadFileRejects(d) THEN DefaultDb
  ELSE IF JsonParseThrows(TextOrEmptyObject(d.raw)) THEN DefaultDb
  ELSE WrapDb(JsonParse(TextOrEmptyObject(d.raw)))
\* const { entries } = db: the property of an object, undefined for a
\* primitive or when the object has no such property.
EntriesOf(db) == IF db.t = "object" /\ db.has THEN JsArray(db.items) ELSE JsUndefined

DbInit ==
  /\ AggInit /\ BatchInit /\ GapIdle /\ ScoresIdle /\ CallsIdle /\ IoIdle
  /\ disk \in DiskPool /\ loaded = NoLoad

\* const { entries } = await loadDb(dbPath)
LoadDb ==
  /\ ~loaded.called
  /\ loaded' = [called |-> TRUE, db |-> loadDb(disk), entries |-> EntriesOf(loadDb(disk))]
  /\ UNCHANGED <<aggVars, batchVars, gapVars, scoreVars, callVars, ioVars, disk>>

DbNext == LoadDb
SpecDb == DbInit /\ [][DbNext]_vars

(* ------------------- monthly scores: webhook triggers ------------------ *)
Uppercase == <<"A", "B", "C", "D", "E", "F", "G", "H", "I", "J", "K", "L", "M", "N", "O", "P", "Q", "R", "S", "T", "U", "V", "W", "X", "Y", "Z">>
Lowercase == <<"a", "b", "c", "d", "e", "f", "g", "h", "i", "j", "k", "l", "m", "n", "o", "p", "q", "r", "s", "t", "u", "v", "w", "x", "y", "z">>
\* String.prototype.toLowerCase over the letters A-Z.
LowerCaseChar(c) ==
  IF \E j \in 1..Len(Uppercase) : Uppercase[j] = c
  THEN Lowercase[CHOOSE j \in 1..Len(Uppercase) : Uppercase[j] = c] ELSE c
toLowerCase(s) == [j \in 1..Len(s) |-> LowerCaseChar(s[j])]
\* The white space of the modelled messages.
IsSpace(c) == c = " "
\* String.prototype.trim
RECURSIVE trim(_)
trim(s) ==
  IF Len(s) > 0 /\ IsSpace(s[1]) THEN trim(Tail(s))
  ELSE IF Len(s) > 0 /\ IsSpace(s[Len(s)]) THEN trim(SubSeq(s, 1, Len(s) - 1))
  ELSE s
\* String.prototype.startsWith
startsWith(s, prefix) == Len(s) >= Len(prefix) /\ SubSeq(s, 1, Len(prefix)) = prefix
\* s.split(/\s+/)
RECURSIVE splitSpaces(_)
splitSpaces(s) ==
  IF \A j \in 1..Len(s) : ~IsSpace(s[j]) THEN <<s>>
  ELSE LET b == CHOOSE j \in 1..Len(s) : IsSpace(s[j]) /\ \A q \in 1..(j - 1) : ~IsSpace(s[q])
           e == IF \E j \in b..Len(s) : ~IsSpace(s[j])
                THEN CHOOSE j \in b..Len(s) : ~IsSpace(s[j]) /\ \A q \in b..(j - 1) : IsSpace(s[q])
                ELSE Len(s) + 1
       IN  <<SubSeq(s, 1, b - 1)>> \o splitSpaces(SubSeq(s, e, Len(s)))
\* s.split("=")
RECURSIVE splitEquals(_)
splitEquals(s) ==
  IF \A j \in 1..Len(s) : s[j] # "=" THEN <<s>>
  ELSE LET b == CHOOSE j \in 1..Len(s) : s[j] = "=" /\ \A q \in 1..(j - 1) : s[q] # "="
       IN  <<SubSeq(s, 1, b - 1)>> \o splitEquals(SubSeq(s, b + 1, Len(s)))

StartTrigger == <<"s", "p", ":", "s", "c", "o", "r", "e", "s", ":", "s", "t", "a", "r", "t">>
RemindTrigger == <<"s", "p", ":", "s", "c", "o", "r", "e", "s", ":", "r", "e", "m", "i", "n", "d">>
PublishTrigger == <<"s", "p", ":", "s", "c", "o", "r", "e", "s", ":", "p", "u", "b", "l", "i", "s", "h">>
TokenKey == <<"t", "o", "k", "e", "n">>
PeriodKey == <<"p", "e", "r", "i", "o", "d">>
\* The type of a trigger, "none" when the content starts with none of them.
TriggerType(lower) ==
  IF startsWith(lower, StartTrigger) THEN "start"
  ELSE IF startsWith(lower, RemindTrigger) THEN "remind"
  ELSE IF startsWith(lower, PublishTrigger) THEN "publish"
  ELSE "none"
\* const [k, v] = part.split('='); if (k && v) args[k.trim()] = v.trim()
SetArg(targs, kv) ==
  IF Len(kv) >= 2 /\ Len(kv[1]) > 0 /\ Len(kv[2]) > 0
  THEN MapSet(targs, trim(kv[1]), trim(kv[2])) ELSE targs
\* The loop over parts[1..]: j is the position in parts, counted from 1.
RECURSIVE ArgsFrom(_, _, _)
ArgsFrom(targs, parts, j) ==
  IF j > Len(parts) THEN targs
  ELSE ArgsFrom(SetArg(targs, splitEquals(parts[j])), parts, j + 1)
NoTrigger == [ok |-> FALSE, type |-> "none", args |-> EmptyMap]
parseTriggerContent(contentRaw) ==
  LET content == trim(contentRaw)
      type == TriggerType(toLowerCase(content))
  IN  IF type = "none" THEN NoTrigger
      ELSE [ok |-> TRUE, type |-> type, args |-> ArgsFrom(EmptyMap, splitSpaces(content), 2)]

\* Mutant: any token is accepted.
tokenIsValidAnyToken(targs) == MapHas(targs, TokenKey)
tokenIsValid(targs) ==
  IF config.token = <<>> THEN FALSE
  ELSE MapHas(targs, TokenKey) /\ MapGet(targs, TokenKey) = config.token

\* The messages handled in a behaviour.
MaxMessages == 2
CurrentPeriod == <<"2", "0", "2", "4", "-", "0", "3">>
ConfigPool ==
  {[token |-> t, logChannel |-> l, scoreChannel |-> c] :
     t \in {<<>>, <<"s", "3">>}, l \in {"", "log"}, c \in {"", "score"}}
ContentPool ==
  {<<"s", "p", ":", "s", "c", "o", "r", "e", "s", ":", "s", "t", "a", "r", "t", " ", "t", "o", "k", "e", "n", "=", "s", "3">>,
   <<" ", "S", "P", ":", "S", "c", "o", "r", "e", "s", ":", "R", "e", "m", "i", "n", "d", " ", " ", "t", "o", "k", "e", "n", "=", "s", "3", " ">>,
   <<"s", "p", ":", "s", "c", "o", "r", "e", "s", ":", "p", "u", "b", "l", "i", "s", "h", " ", "p", "e", "r", "i", "o", "d", "=", "2", "0", "2", "4", "-", "0", "2", " ", "t", "o", "k", "e", "n", "=", "s", "3">>,
   <<"s", "p", ":", "s", "c", "o", "r", "e", "s", ":", "p", "u", "b", "l", "i", "s", "h", " ", "t", "o", "k", "e", "n", "=", "s", "3">>,
   <<"s", "p", ":", "s", "c", "o", "r", "e", "s", ":", "s", "t", "a", "r", "t", " ", "t", "o", "k", "e", "n", "=", "n", "o">>,
   <<"s", "p", ":", "s", "c", "o", "r", "e", "s", ":", "s", "t", "a", "r", "t">>,
   <<"s", "p", ":", "s", "c", "o", "r", "e", "s", ":", "r", "e", "m", "i", "n", "d", " ", "t", "o", "k", "e", "n", "=">>,
   <<"s", "p", ":", "s", "c", "o", "r", "e", "s", ":", "s", "t", "a", "r", "t", " ", "t", "o", "k", "e", "n", "=", "n", "o", " ", "t", "o", "k", "e", "n", "=", "s", "3">>,
   <<"s", "p", ":", "s", "c", "o", "r", "e", "s", ":", "s", "t", "o", "p", " ", "t", "o", "k", "e", "n", "=", "s", "3">>,
   <<"h", "e", "l", "l", "o", " ", "t", "o", "k", "e", "n", "=", "s", "3">>,
   <<>>,
   <<"t", "o", "k", "e", "n", "=", "s", "3", " ", "s", "p", ":", "s", "c", "o", "r", "e", "s", ":", "s", "t", "a", "r", "t">>}
MessagePool ==
  {[webhook |-> w, channel |-> c, content |-> x] :
     w \in BOOLEAN, c \in {"log", "score", "other"}, x \in ContentPool}
ScoresInit ==
  /\ AggInit /\ BatchInit /\ GapIdle /\ DbIdle /\ CallsIdle /\ IoIdle
  /\ config \in ConfigPool /\ listening = FALSE /\ survey = NoSurvey
  /\ last = NoMessage /\ handled = 0

\* registerMonthlyScores: the listener is registered only when the two
\* channels and the token are configured.
RegisterMonthlyScores ==
  /\ ~listening /\ handled = 0
  /\ listening' = (config.scoreChannel # "" /\ config.logChannel # "" /\ config.token # <<>>)
  /\ UNCHANGED <<config, survey, last, handled>>
  /\ UNCHANGED <<aggVars, batchVars, gapVars, dbVars, callVars, ioVars>>

\* parsed.args.period || periodKey(nowTz)
PeriodOf(targs) == IF MapHas(targs, PeriodKey) THEN MapGet(targs, PeriodKey) ELSE CurrentPeriod
\* startSurvey, remindSurvey, publishSurveyResults: what they post to the
\* score channel and do to the window; nothing when getScoreChannel gives
\* no text channel (channelOk is FALSE).
RunSurveyAction(sv, parsed, channelOk) ==
  IF ~channelOk THEN sv
  ELSE IF parsed.type = "start"
       THEN [posts |-> sv.posts + 2, windows |-> sv.windows \cup {CurrentPeriod}]
  ELSE IF parsed.type = "remind"
       THEN [posts |-> sv.posts + 1, windows |-> sv.windows]
  ELSE [posts |-> sv.posts + 2, windows |-> sv.windows \ {PeriodOf(parsed.args)}]
\* The outcome of the listener on msg: the survey action it runs, "none"
\* when the message is ignored or refused.
ActionFor(msg, parsed) ==
  IF msg.webhook /\ msg.channel = config.logChannel /\ parsed.ok /\ tokenIsValid(parsed.args)
  THEN parsed.type ELSE "none"
\* The MessageCreate listener of registerWebhookTriggerListener.
MessageCreate(msg, channelOk) ==
  /\ listening
  /\ handled < MaxMessages
  /\ \E parsed \in {parseTriggerContent(msg.content)} :
       \E act \in {ActionFor(msg, parsed)} :
         /\ last' = [msg |-> msg, executed |-> act]
         /\ survey' = IF act = "none" THEN survey ELSE RunSurveyAction(survey, parsed, channelOk)
  /\ handled' = handled + 1
  /\ UNCHANGED <<config, listening>>
  /\ UNCHANGED <<aggVars, batchVars, gapVars, dbVars, callVars, ioVars>>

ScoresNext ==
  \/ RegisterMonthlyScores
  \/ \E msg \in MessagePool : \E channelOk \in BOOLEAN : MessageCreate(msg, channelOk)
SpecScores == ScoresInit /\ [][ScoresNext]_vars

(* ------------------------------- addScore ------------------------------ *)
\* The most addScore calls of a behaviour.
MaxSubmissions == 2
\* s.replace(c, r) with a string pattern: the first occurrence only.
replaceFirst(s, c, r) ==
  IF \A j \in 1..Len(s) : s[j] # c THEN s
  ELSE LET p == CHOOSE j \in 1..Len(s) : s[j] = c /\ \A q \in 1..(j - 1) : s[q] # c
       IN  SubSeq(s, 1, p - 1) \o r \o SubSeq(s, p + 1, Len(s))
\* Number(String(rawScore).replace(',', '.').replace('%', '').replace('+', '').trim())
ScoreOf(rawScore) ==
  Number(trim(replaceFirst(replaceFirst(replaceFirst(rawScore, ",", <<".">>), "%", <<>>),
                           "+", <<>>)))
\* The period of every call of the model.
ScorePeriod == <<"2", "0", "2", "4", "-", "0", "3">>
\* hashUserForPeriod: the digest of "period:user"; different texts have
\* different digests.
hashUserForPeriod(userId, pKey) == <<"hmac">> \o pKey \o <<":">> \o userId
\* data.entries after the find and the update or push of addScore.
UpsertScore(es, fingerprint, scoreNum) ==
  IF \E j \in 1..Len(es) : es[j].userHash = fingerprint
  THEN [es EXCEPT ![CHOOSE j \in 1..Len(es) :
                      /\ es[j].userHash = fingerprint
                      /\ \A h \in 1..(j - 1) : es[h].userHash # fingerprint].score = scoreNum]
  ELSE Append(es, [userHash |-> fingerprint, score |-> scoreNum])
ScoreUserPool == {<<"1", "1">>, <<"2", "2">>}
RawScorePool == {<<"5">>, <<"+", "7", "%">>, <<" ", "5", " ">>, <<"x">>}

\* addScore(userId, rawScore) up to its first await: the score is parsed and
\* the read of the period's file is started, or the call throws.
AddScore(userId, rawScore) ==
  /\ Len(addCalls) < MaxSubmissions
  /\ \E scoreNum \in {ScoreOf(rawScore)} :
       addCalls' = Append(addCalls,
         [st |-> IF scoreNum.k = "num" THEN "reading" ELSE "rejected",
          user |-> userId, score |-> scoreNum, data |-> <<>>])
  /\ UNCHANGED <<aggVars, batchVars, gapVars, dbVars, scoreVars, callVars>>
  /\ UNCHANGED <<scoreFile, logFile, appendCalls, backfill, git, metricState, dash>>

\* readJSON returns the file as it is now (without entries when there is no
\* file), and the call updates its copy of the entries.
AddScoreRead(c) ==
  /\ addCalls[c].st = "reading"
  /\ addCalls' = [addCalls EXCEPT ![c].st = "writing",
                    ![c].data = UpsertScore(scoreFile,
                                  hashUserForPeriod(addCalls[c].user, ScorePeriod),
                                  addCalls[c].score)]
  /\ UNCHANGED <<aggVars, batchVars, gapVars, dbVars, scoreVars, callVars>>
  /\ UNCHANGED <<scoreFile, logFile, appendCalls, backfill, git, metricState, dash>>

\* writeJSON writes the call's copy over the file.
AddScoreWrite(c) ==
  /\ addCalls[c].st = "writing"
  /\ scoreFile' = addCalls[c].data
  /\ addCalls' = [addCalls EXCEPT ![c].st = "done"]
  /\ UNCHANGED <<aggVars, batchVars, gapVars, dbVars, scoreVars, callVars>>
  /\ UNCHANGED <<logFile, appendCalls, backfill, git, metricState, dash>>

AddScoreNext ==
  \/ \E userId \in ScoreUserPool, rawScore \in RawScorePool : AddScore(userId, rawScore)
  \/ \E c \in 1..Len(addCalls) : AddScoreRead(c)
  \/ \E c \in 1..Len(addCalls) : AddScoreWrite(c)
SpecAddScore == Init /\ [][AddScoreNext]_vars

(* ------------------------------ appendToLog ---------------------------- *)
\* The most appendToLog calls of a behaviour.
MaxAppends == 2
\* A channel message: its id, the Israel-local day of its creation, whether
\* a bot wrote it, whether it is older than the backfill cutoff, its text.
Msg(id, day, bot, old, content) ==
  [id |-> id, day |-> day, bot |-> bot, old |-> old, content |-> content]
M1 == Msg("m1", 1, FALSE, FALSE, <<"h", "i">>)
M2 == Msg("m2", 1, FALSE, FALSE, <<"y", "o">>)
M3 == Msg("m3", 2, FALSE, FALSE, <<"o", "k">>)
BotMsg == Msg("m4", 1, TRUE, FALSE, <<"b">>)
BlankMsg == Msg("m5", 1, FALSE, FALSE, <<" ">>)
OldMsg == Msg("m0", 1, FALSE, TRUE, <<"o">>)
\* shouldLogMessage on a text without emoji and links: the trimmed content
\* is not empty.
shouldLogMessage(msg) == Len(trim(msg.content)) > 0
\* The daily files the bucket may hold when a call starts.
LogFilePool ==
  {NoLogs, [d \in LogDays |-> IF d = 1 THEN <<"m1">> ELSE <<>>],
   [d \in LogDays |-> IF d = 1 THEN <<"m0", "m2">> ELSE <<"m3">>]}
AppendInit ==
  /\ AggInit /\ BatchInit /\ GapIdle /\ DbIdle /\ ScoresIdle /\ CallsIdle
  /\ AddIdle /\ GitIdle /\ DashIdle
  /\ logFile \in LogFilePool /\ appendCalls = <<>> /\ backfill = NoBackfill

\* appendToLog(msg) on the day today, up to the download of the daily file.
AppendToLog(msg, today) ==
  /\ Len(appendCalls) < MaxAppends
  /\ appendCalls' = Append(appendCalls,
       [st |-> IF shouldLogMessage(msg) THEN "downloading" ELSE "skipped",
        id |-> msg.id, day |-> today, existing |-> <<>>, before |-> logFile[today]])
  /\ UNCHANGED <<aggVars, batchVars, gapVars, dbVars, scoreVars, callVars>>
  /\ UNCHANGED <<scoreFile, addCalls, logFile, backfill, git, metricState, dash>>

\* The download is answered: existing is the text of the file, or stays
\* empty when the download fails (the file is absent, or the request fails).
AppendDownload(c, downloaded) ==
  /\ appendCalls[c].st = "downloading"
  /\ appendCalls' = [appendCalls EXCEPT ![c].st = "uploading",
                       ![c].existing = IF downloaded THEN logFile[appendCalls[c].day]
                                       ELSE <<>>]
  /\ UNCHANGED <<aggVars, batchVars, gapVars, dbVars, scoreVars, callVars>>
  /\ UNCHANGED <<scoreFile, addCalls, logFile, backfill, git, metricState, dash>>

\* The upload with upsert replaces the file by existing and the new record,
\* or fails and the call throws.
AppendUpload(c, uploaded) ==
  /\ appendCalls[c].st = "uploading"
  /\ IF uploaded
     THEN /\ logFile' = [logFile EXCEPT ![appendCalls[c].day] =
                           Append(appendCalls[c].existing, appendCalls[c].id)]
          /\ appendCalls' = [appendCalls EXCEPT ![c].st = "done"]
     ELSE /\ appendCalls' = [appendCalls EXCEPT ![c].st = "failed"]
          /\ UNCHANGED logFile
  /\ UNCHANGED <<aggVars, batchVars, gapVars, dbVars, scoreVars, callVars>>
  /\ UNCHANGED <<scoreFile, addCalls, backfill, git, metricState, dash>>

AppendNext ==
  \/ \E msg \in {M1, M2, M3, BlankMsg}, today \in LogDays : AppendToLog(msg, today)
  \/ \E c \in 1..Len(appendCalls), downloaded \in BOOLEAN : AppendDownload(c, downloaded)
  \/ \E c \in 1..Len(appendCalls), uploaded \in BOOLEAN : AppendUpload(c, uploaded)
SpecAppend == AppendInit /\ [][AppendNext]_vars

(* ------------------------ backfillLastDayMessages ---------------------- *)
\* The most backfill runs of a behaviour.
MaxRuns == 2
\* The page size of channel.messages.fetch (100 in the code).
PageLimit == 2
\* The ids of a sequence of records.
IdsOf(recs) == {recs[j] : j \in 1..Len(recs)}
\* The channel's history, newest message first.
HistoryPool ==
  {<<>>, <<M3, M2, M1>>, <<M3, BotMsg, M1, OldMsg>>, <<M2, BlankMsg, M1>>}
BackfillInit ==
  /\ AggInit /\ BatchInit /\ GapIdle /\ DbIdle /\ ScoresIdle /\ CallsIdle
  /\ AddIdle /\ GitIdle /\ DashIdle
  /\ logFile \in LogFilePool /\ appendCalls = <<>>
  /\ \E h \in HistoryPool : backfill = [NoBackfill EXCEPT !.channel = h]

\* ensureBucketFor: the bucket of the day, loaded from the day's file on
\* first use; a failed download leaves the text and the ids empty.
ensureBucketFor(buckets, day, downloaded) ==
  IF MapHas(buckets, day) THEN MapGet(buckets, day)
  ELSE IF downloaded
       THEN [existingText |-> logFile[day], existingIds |-> IdsOf(logFile[day]),
             records |-> <<>>]
       ELSE [existingText |-> <<>>, existingIds |-> {}, records |-> <<>>]
\* After the message at position pos: the next message of the page, or the
\* next fetch.
AfterMessage(b) ==
  [b EXCEPT !.pos = b.pos + 1,
            !.st = IF b.pos + 1 = b.pageEnd THEN "fetching" ELSE "processing"]

\* backfillLastDayMessages is called: a new set of buckets, no lastId.
BackfillStart ==
  /\ backfill.st \in {"idle", "done", "failed"}
  /\ backfill.runs < MaxRuns
  /\ backfill' = [backfill EXCEPT !.st = "fetching", !.runs = backfill.runs + 1,
                    !.prev = IF backfill.st = "idle" THEN "none" ELSE backfill.st,
                    !.pos = 0, !.pageEnd = 0, !.buckets = EmptyMap, !.w = 0,
                    !.uploads = 0]
  /\ UNCHANGED <<aggVars, batchVars, gapVars, dbVars, scoreVars, callVars>>
  /\ UNCHANGED <<scoreFile, addCalls, logFile, appendCalls, git, metricState, dash>>

\* channel.messages.fetch answers with the next page; an empty page ends the
\* loop.
BackfillFetch ==
  /\ backfill.st = "fetching"
  /\ backfill' =
       IF backfill.pos >= Len(backfill.channel)
       THEN [backfill EXCEPT !.st = "writing", !.w = 1]
       ELSE [backfill EXCEPT !.st = "processing",
               !.pageEnd = IF backfill.pos + PageLimit < Len(backfill.channel)
                           THEN backfill.pos + PageLimit ELSE Len(backfill.channel)]
  /\ UNCHANGED <<aggVars, batchVars, gapVars, dbVars, scoreVars, callVars>>
  /\ UNCHANGED <<scoreFile, addCalls, logFile, appendCalls, git, metricState, dash>>

\* One message of the page: stop at a message older than the cutoff, skip
\* bots and messages not to log, skip an id the bucket already has,
\* otherwise add the record.
BackfillMessage(downloaded) ==
  /\ backfill.st = "processing"
  /\ LET msg == backfill.channel[backfill.pos + 1]
         bucket == ensureBucketFor(backfill.buckets, msg.day, downloaded)
     IN backfill' =
          IF msg.old THEN [backfill EXCEPT !.st = "writing", !.w = 1]
          ELSE IF msg.bot \/ ~shouldLogMessage(msg) THEN AfterMessage(backfill)
          ELSE IF msg.id \in bucket.existingIds
          THEN AfterMessage([backfill EXCEPT !.buckets = MapSet(@, msg.day, bucket)])
          ELSE AfterMessage([backfill EXCEPT !.buckets = MapSet(@, msg.day,
                 [bucket EXCEPT !.records = Append(@, msg.id),
                                !.existingIds = @ \cup {msg.id}])])
  /\ UNCHANGED <<aggVars, batchVars, gapVars, dbVars, scoreVars, callVars>>
  /\ UNCHANGED <<scoreFile, addCalls, logFile, appendCalls, git, metricState, dash>>

\* The next bucket is written: a bucket without records is passed over, the
\* upload replaces the file by the text read and the records, a failed
\* upload throws.
BackfillWrite(uploaded) ==
  /\ backfill.st = "writing"
  /\ IF backfill.w > Len(backfill.buckets.keys)
     THEN backfill' = [backfill EXCEPT !.st = "done"] /\ UNCHANGED logFile
     ELSE LET day == backfill.buckets.keys[backfill.w]
              bucket == backfill.buckets.val[backfill.w]
          IN IF Len(bucket.records) = 0
             THEN backfill' = [backfill EXCEPT !.w = @ + 1] /\ UNCHANGED logFile
             ELSE IF uploaded
             THEN /\ logFile' = [logFile EXCEPT ![day] = bucket.existingText \o bucket.records]
                  /\ backfill' = [backfill EXCEPT !.w = @ + 1, !.uploads = @ + 1]
             ELSE backfill' = [backfill EXCEPT !.st = "failed"] /\ UNCHANGED logFile
  /\ UNCHANGED <<aggVars, batchVars, gapVars, dbVars, scoreVars, callVars>>
  /\ UNCHANGED <<scoreFile, addCalls, appendCalls, git, metricState, dash>>

BackfillNext ==
  \/ BackfillStart
  \/ BackfillFetch
  \/ \E downloaded \in BOOLEAN : BackfillMessage(downloaded)
  \/ \E uploaded \in BOOLEAN : BackfillWrite(uploaded)
SpecBackfill == BackfillInit /\ [][BackfillNext]_vars

(* --------------------------- commitLogIfChanged ------------------------ *)
\* The most commitLogIfChanged calls of a behaviour.
MaxGitCalls == 2
\* The repository: dirty, the log file differs from the index; staged, the
\* index differs from HEAD; local, the commits not yet on the remote;
\* remote, the commits of this clone on the remote; ahead, the remote holds
\* commits this clone does not have.  Of the running call: found, what
\* git add left staged; made, the commit was created; pushed, a push
\* succeeded; ret, the value returned.
GitInit ==
  /\ AggInit /\ BatchInit /\ GapIdle /\ DbIdle /\ ScoresIdle /\ CallsIdle
  /\ AddIdle /\ LogIdle /\ DashIdle
  /\ \E ahead \in BOOLEAN : git = [NoGit EXCEPT !.ahead = ahead]
\* The call returns v.
GitReturn(g, v) == [g EXCEPT !.st = "returned", !.ret = v]
\* git push: every local commit reaches the remote, unless the remote is
\* ahead or the command fails otherwise.
GitPush(g, ok, onFailure) ==
  IF ok /\ ~g.ahead
  THEN GitReturn([g EXCEPT !.remote = g.remote + g.local, !.local = 0, !.pushed = TRUE], TRUE)
  ELSE onFailure

\* commitLogIfChanged(logPath) is called; the file was written before it
\* (changed) or is as the last call left it.
CommitLogIfChanged(changed) ==
  /\ git.st \in {"idle", "returned"}
  /\ git.calls < MaxGitCalls
  /\ git' = [git EXCEPT !.st = "config name", !.calls = git.calls + 1,
                         !.dirty = git.dirty \/ changed, !.found = FALSE,
                         !.made = FALSE, !.pushed = FALSE, !.ret = "none"]
  /\ UNCHANGED <<aggVars, batchVars, gapVars, dbVars, scoreVars, callVars>>
  /\ UNCHANGED <<scoreFile, addCalls, logFile, appendCalls, backfill, metricState, dash>>

\* The exec call the function awaits settles: ok, the command did its work
\* and exited with 0 where the repository allows it; otherwise exec rejects.
GitExec(ok) ==
  /\ git.st \notin {"idle", "returned"}
  /\ git' =
       CASE git.st = "config name" ->
              IF ok THEN [git EXCEPT !.st = "config email"] ELSE GitReturn(git, FALSE)
         [] git.st = "config email" ->
              IF ok THEN [git EXCEPT !.st = "add"] ELSE GitReturn(git, FALSE)
         [] git.st = "add" ->
              IF ok THEN [git EXCEPT !.st = "diff", !.staged = git.staged \/ git.dirty,
                                     !.dirty = FALSE, !.found = git.staged \/ git.dirty]
              ELSE GitReturn(git, FALSE)
         [] git.st = "diff" ->
              IF ok /\ ~git.staged THEN GitReturn(git, FALSE)
              ELSE [git EXCEPT !.st = "commit"]
         [] git.st = "commit" ->
              IF ok /\ git.staged
              THEN [git EXCEPT !.st = "push", !.staged = FALSE, !.local = git.local + 1,
                               !.made = TRUE]
              ELSE GitReturn(git, FALSE)
         [] git.st = "push" -> GitPush(git, ok, [git EXCEPT !.st = "pull"])
         [] git.st = "pull" ->
              IF ok THEN [git EXCEPT !.st = "push again", !.ahead = FALSE]
              ELSE GitReturn(git, TRUE)
         [] git.st = "push again" -> GitPush(git, ok, GitReturn(git, TRUE))
  /\ UNCHANGED <<aggVars, batchVars, gapVars, dbVars, scoreVars, callVars>>
  /\ UNCHANGED <<scoreFile, addCalls, logFile, appendCalls, backfill, metricState, dash>>

GitNext ==
  \/ \E changed \in BOOLEAN : CommitLogIfChanged(changed)
  \/ \E ok \in BOOLEAN : GitExec(ok)
SpecGit == GitInit /\ [][GitNext]_vars

(* ------------------------ dashboard selections ------------------------- *)
\* The most dashboards shown and interactions handled in a behaviour.
MaxInteractions == 2
\* A property that an object does not have.
NoField == "undefined"
\* The month the dashboard is shown in, as "YYYY-MM".
CurrentMonth == "2024-02"
DashMessagePool == {<<"1">>, <<"2">>}
DashUserPool == {<<"7">>, <<"8">>}
\* interaction.values?.[0]: a metric, a month, or nothing.
DashValuePool == {"mention_oc", "2024-01", ""}
DashCidPool == {"dash:metric", "dash:month", "dash:refresh", "help"}
\* `${message.id}:${userId}`
StateKey(messageId, userId) == messageId \o <<":">> \o userId
\* metricState.get(key), undefined read as an object without properties.
StoredFor(m, key) ==
  IF MapHas(m, key) THEN MapGet(m, key) ELSE [f \in {"metric", "month"} |-> NoField]
\* a || b on strings and undefined.
OrElse(a, b) == IF a = NoField \/ a = "" THEN b ELSE a
getSelectedMetricForMessage(m, messageId, userId) ==
  OrElse(StoredFor(m, StateKey(messageId, userId))["metric"], "month_oc")
getSelectedMonthForMessage(m, messageId, userId) ==
  OrElse(StoredFor(m, StateKey(messageId, userId))["month"], CurrentMonth)
metricToComputeOpts(metric) ==
  CASE metric = "month_cc" -> [anchor |-> "month", mode |-> "cc"]
    [] metric = "mention_oc" -> [anchor |-> "mention", mode |-> "oc"]
    [] metric = "mention_cc" -> [anchor |-> "mention", mode |-> "cc"]
    [] OTHER -> [anchor |-> "month", mode |-> "oc"]
\* Mutant: the selection replaces the stored object.
SelectAlone(m, key, field, selected) ==
  MapSet(m, key, [f \in {"metric", "month"} |-> IF f = field THEN selected ELSE NoField])
\* metricState.set(key, { ...metricState.get(key), [field]: selected })
Select(m, key, field, selected) ==
  MapSet(m, key, [StoredFor(m, key) EXCEPT ![field] = selected])
\* What the process may hold from earlier dashboards: nothing, or the
\* selection of one pair with a month chosen.
DashStatePool ==
  {EmptyMap,
   MapSet(EmptyMap, StateKey(<<"2">>, <<"8">>),
          [f \in {"metric", "month"} |-> IF f = "metric" THEN "month_oc" ELSE "2024-01"])}
DashInit ==
  /\ AggInit /\ BatchInit /\ GapIdle /\ DbIdle /\ ScoresIdle /\ CallsIdle
  /\ AddIdle /\ LogIdle /\ GitIdle
  /\ metricState \in DashStatePool /\ dash = NoDash

\* showTickersDashboard, after the aggregate is built: once the dashboard
\* message is sent, the author's selection for it is stored; a failed send
\* stores nothing.
StoreSelection(sentId, authorId, sent) ==
  /\ dash.n < MaxInteractions
  /\ dash' = [dash EXCEPT !.n = dash.n + 1]
  /\ metricState' =
       IF sent
       THEN MapSet(metricState, StateKey(sentId, authorId),
                   [f \in {"metric", "month"} |->
                      IF f = "metric" THEN "month_oc" ELSE CurrentMonth])
       ELSE metricState
  /\ UNCHANGED <<aggVars, batchVars, gapVars, dbVars, scoreVars, callVars>>
  /\ UNCHANGED <<scoreFile, addCalls, logFile, appendCalls, backfill, git>>

\* handleDashboardInteraction up to the await of loadDb; a custom id that
\* is not the dashboard's returns false at once.
SelectInteraction(cid, messageId, userId, value) ==
  /\ dash.n < MaxInteractions
  /\ dash' = [dash EXCEPT !.n = dash.n + 1,
                          !.pending = IF cid \in {"dash:metric", "dash:month", "dash:refresh"}
                                      THEN Append(dash.pending,
                                             [cid |-> cid, messageId |-> messageId,
                                              userId |-> userId, value |-> value, ok |-> FALSE])
                                      ELSE dash.pending]
  /\ UNCHANGED <<aggVars, batchVars, gapVars, dbVars, scoreVars, callVars>>
  /\ UNCHANGED <<scoreFile, addCalls, logFile, appendCalls, backfill, git, metricState>>

\* loadDb settles for the pending interaction p: a rejection leaves the
\* handler, a metric or month selection is stored, any other dashboard
\* control stores nothing.
SelectLoaded(p, dbLoaded) ==
  /\ p \in 1..Len(dash.pending)
  /\ LET it == dash.pending[p]
         key == StateKey(it.messageId, it.userId)
     IN /\ dash' = [dash EXCEPT !.pending = SubSeq(dash.pending, 1, p - 1)
                                            \o SubSeq(dash.pending, p + 1, Len(dash.pending)),
                               !.served = dash.served + 1,
                               !.last = [it EXCEPT !.ok = dbLoaded]]
        /\ metricState' =
             IF ~dbLoaded THEN metricState
             ELSE IF it.cid = "dash:metric"
             THEN Select(metricState, key, "metric", OrElse(it.value, "month_oc"))
             ELSE IF it.cid = "dash:month"
             THEN Select(metricState, key, "month",
                    OrElse(it.value, getSelectedMonthForMessage(metricState, it.messageId, it.userId)))
             ELSE metricState
  /\ UNCHANGED <<aggVars, batchVars, gapVars, dbVars, scoreVars, callVars>>
  /\ UNCHANGED <<scoreFile, addCalls, logFile, appendCalls, backfill, git>>

DashNext ==
  \/ \E sentId \in DashMessagePool, authorId \in DashUserPool, sent \in BOOLEAN :
       StoreSelection(sentId, authorId, sent)
  \/ \E cid \in DashCidPool, messageId \in DashMessagePool, userId \in DashUserPool,
        value \in DashValuePool : SelectInteraction(cid, messageId, userId, value)
  \/ \E p \in 1..Len(dash.pending), dbLoaded \in BOOLEAN : SelectLoaded(p, dbLoaded)
SpecDash == DashInit /\ [][DashNext]_vars

(* ======================== claims on the batch ========================= *)
\* The resolver calls that have been started and have not settled.
InFlight == Cardinality({j \in 1..Len(workers) : workers[j].st \in {"fetching", "hit"}})
\* The items of the truncated batch whose resolver succeeded.
Succeeded == {j \in 1..Len(workers) : workers[j].resolver = "ok"}
Failed == {j \in 1..Len(workers) : workers[j].resolver = "failed"}
Occurrences(seq, x) == Cardinality({j \in 1..Len(seq) : seq[j] = x})
\* x >= y on floating-point results
PctGe(x, y) ==
  IF x.k = "NaN" \/ y.k = "NaN" THEN FALSE
  ELSE IF x.k = "Inf" \/ y.k = "-Inf" THEN TRUE
  ELSE IF x.k = "-Inf" \/ y.k = "Inf" THEN FALSE
  ELSE x.n * y.d >= y.n * x.d

\* C1: during a computeGainers call the number of resolver calls started and
\* not yet settled never exceeds the effective concurrency: the given
\* concurrency, replaced by 3 when it is not positive and by 10 when it is
\* above 10.
C1_ConcurrencyCeiling ==
  phase = "running" =>
    InFlight <= (IF args.concurrency <= 0 THEN 3
                 ELSE IF args.concurrency > 10 THEN 10 ELSE args.concurrency)
\* The ceiling binds: a batch longer than 10 called with a concurrency above
\* 10 has refilled a freed slot and has 10 calls in flight.
C1_Witness ==
  /\ phase = "running" /\ args.concurrency > 10 /\ Len(subset) > 10
  /\ InFlight = 10
  /\ \E j \in 1..Len(workers) : workers[j].st = "done"

\* C2: a computeGainers call on a truncated batch of n items of which k
\* resolvers failed resolves with exactly the n - k results of the resolvers
\* that succeeded, each as its own series gives it, and every item of the
\* batch has been processed.
C2_FailuresIsolated ==
  (phase = "resolved" /\ Len(items) > 0) =>
    /\ \A j \in 1..Len(subset) : workers[j].st = "done" /\ results[j] = workers[j].res
    /\ Succeeded \cup Failed = 1..Len(subset)
    /\ Len(out) = Len(subset) - Cardinality(Failed)
    /\ \A x \in 1..Len(out) : \E j \in Succeeded : workers[j].res = out[x]
    /\ \A j \in Succeeded :
         /\ workers[j].res.info = subset[j]
         /\ workers[j].res = WorkerResult(subset[j],
              ResolveOnSeries(workers[j].ch, args.anchor, args.mode, subset[j].firstTs,
                              args.selectedMonth))
         /\ Occurrences(out, workers[j].res)
              = Cardinality({h \in Succeeded : workers[h].res = workers[j].res})
\* A batch has resolved in which one resolver failed before another succeeded.
C2_Witness ==
  /\ phase = "resolved" /\ Len(subset) >= 2
  /\ workers[1].resolver = "failed" /\ workers[2].resolver = "ok"
  /\ Len(out) = 1

\* C3: every result of the resolver, and so every result computeGainers
\* returns, has basis > 0 and latest > 0.
C3_PositiveBasisAndLatest ==
  /\ \A j \in Succeeded : IsPositive(workers[j].res.basis) /\ IsPositive(workers[j].res.latest)
  /\ \A x \in 1..Len(out) : IsPositive(out[x].basis) /\ IsPositive(out[x].latest)

C5_SortedDescending ==
  phase = "resolved" =>
    \A x \in 1..(Len(out) - 1) : PctGe(out[x].pct, out[x + 1].pct)

\* The number of items a call resolves: the first L of its list, L being
\* limitTickers when positive and 50 otherwise.
Taken ==
  LET L == IF args.limitTickers > 0 THEN args.limitTickers ELSE 50
  IN  IF L < Len(items) THEN L ELSE Len(items)
\* C29: computeGainers resolves only the first L items of its list, L being
\* limitTickers when positive and 50 otherwise: no resolver call and no
\* upstream request is made for a position beyond them, every result returned
\* is that of one of them, and at most min(L, length) results are returned.
C29_OnlyFirstItemsResolved ==
  (phase # "idle" /\ Len(items) > 0) =>
    /\ Len(workers) = Taken /\ Len(results) = Taken
    /\ \A j \in 1..Len(workers) :
         workers[j].st # "idle" => workers[j].key[1] = items[j].symbol
    /\ \A j \in 1..Len(results) :
         results[j].v = "gain" => results[j].info = items[j]
    /\ Len(out) <= Taken
    /\ \A x \in 1..Len(out) : \E j \in 1..Taken : out[x] = results[j]
\* A list of two different items under limitTickers = 1: the first alone was
\* resolved and returned.
C29_Witness ==
  /\ phase = "resolved" /\ args.limitTickers = 1
  /\ Len(items) = 2 /\ items[1] # items[2]
  /\ Len(workers) = 1 /\ workers[1].requests = 1
  /\ Len(out) = 1 /\ out[1].info = items[1]

\* The positions of the truncated list whose worker has been started.
Started == {j \in 1..Len(workers) : workers[j].st # "idle"}
\* The outcome of item j: the value its worker returns for the series its
\* fetch gave, null when the fetch was rejected.
OutcomeOf(j) ==
  IF workers[j].ch = NoSeries THEN NullResult
  ELSE WorkerResult(subset[j],
         ResolveOnSeries(workers[j].ch, args.anchor, args.mode, subset[j].firstTs,
                         args.selectedMonth))
\* C30: the items of the truncated list are handed to the worker in input
\* order and never twice; when the batch resolves every one of them has been
\* handed over, every worker has settled, and result slot j holds the outcome
\* of item j, whatever the order in which the workers completed.
C30_ResultsPositional ==
  /\ [](phase # "idle" => Started = 1..i)
  /\ [][\A j \in 1..Len(workers) :
          workers[j].st # "idle" =>
            /\ workers'[j].st # "idle"
            /\ workers'[j].key = workers[j].key
            /\ workers'[j].requests = workers[j].requests]_vars
  /\ []((phase = "resolved" /\ Len(items) > 0) =>
         /\ i = Len(subset) /\ Len(workers) = Len(subset) /\ Len(results) = Len(subset)
         /\ \A j \in 1..Len(subset) :
              /\ workers[j].st = "done"
              /\ results[j] = OutcomeOf(j)
              /\ results[j].v = "gain" => results[j].info = subset[j])
\* Two items resolved side by side with different outcomes: a null in slot 1
\* and a gain in slot 2.
C30_Witness ==
  /\ phase = "resolved" /\ limit = 2 /\ Len(subset) = 2
  /\ results[1].v = "null" /\ results[2].v = "gain"
  /\ results[2].info = subset[2] /\ subset[1] # subset[2]

\* The workers started whose finally callback has not run.
Occupied == {j \in 1..Len(workers) : workers[j].st \in {"fetching", "hit", "settled"}}
\* C31: the scheduler is work-conserving: in every state of a running batch
\* either exactly limit workers are in flight or every item has been
\* started, and no upstream reply is processed while a settled worker still
\* waits for the callback that starts the next item.
C31_WorkConserving ==
  /\ [](phase = "running" =>
         /\ active = Cardinality(Occupied)
         /\ active = limit \/ i = Len(subset))
  /\ [][\A j \in 1..Len(workers) :
          (workers[j].st = "fetching" /\ workers'[j].st = "settled") =>
            \A h \in 1..Len(workers) : workers[h].st # "settled"]_vars
\* A slot freed by a finished worker was refilled with the last queued item.
C31_Witness ==
  /\ phase = "running" /\ Len(subset) > limit
  /\ \E j \in 1..Len(workers) : workers[j].st = "done"
  /\ active = limit /\ i = Len(subset)
  /\ workers[Len(subset)].st = "fetching"

(* ===================== claims on the aggregation ====================== *)
\* The "YYYY-MM" prefix of an ISO-8601 timestamp given in UTC ("...Z").
IsoMonthPrefix(ts) == padStart(NatToStr(ts.y), 4, "0") \o <<"-">> \o padStart(NatToStr(ts.mo), 2, "0")
\* The positions of the records of month m whose ticker, uppercased, is t.
Qualifying(es, m, t) ==
  {j \in 1..Len(es) : /\ Truthy(es[j].ticker)
                      /\ es[j].timestamp.ok
                      /\ IsoMonthPrefix(es[j].timestamp) = m
                      /\ [q \in 1..Len(es[j].ticker.s) |-> UpperChar(es[j].ticker.s[q])] = t}
\* Every symbol a record of the pool can stand for, and every key of the map.
CandidateSymbols ==
  {[q \in 1..Len(TickerPool[a].s) |-> UpperChar(TickerPool[a].s[q])] : a \in 1..Len(TickerPool)}
  \cup {TickerPool[a].s : a \in 1..Len(TickerPool)}
  \cup MapKeys(agg.byTicker)

\* C6: the ticker map of aggregateMonth holds a ticker exactly when a record
\* with that (uppercased) ticker has its timestamp in the UTC month, and
\* countMTD is the number of those records; records of other months, without
\* ticker or without a usable timestamp count for nothing.
C6_CountPerTicker ==
  agg.called =>
    \A t \in CandidateSymbols :
      /\ MapHas(agg.byTicker, t) <=> Qualifying(agg.entries, agg.month, t) # {}
      /\ MapHas(agg.byTicker, t) =>
           MapGet(agg.byTicker, t).countMTD = Cardinality(Qualifying(agg.entries, agg.month, t))

\* Two records of the month under one symbol, and a third record that is skipped.
C6_Witness ==
  /\ agg.called /\ Len(agg.entries) = 3
  /\ \E t \in MapKeys(agg.byTicker) :
       /\ MapGet(agg.byTicker, t).countMTD = 2
       /\ Len(agg.byTicker.keys) = 1

\* C7: firstTs is the minimum and lastTs the maximum timestamp of the ticker's
\* qualifying records (instants before the epoch included), the first-mention
\* fields are those of a record with the minimum timestamp and lastLink is
\* that of a record with the maximum timestamp.
C7_FirstLastAreMinMax ==
  agg.called =>
    \A t \in MapKeys(agg.byTicker) :
      LET a  == MapGet(agg.byTicker, t)
          q  == Qualifying(agg.entries, agg.month, t)
          es == agg.entries
      IN  /\ \A j \in q : NumLe(a.firstTs, DateParse(es[j].timestamp))
          /\ \A j \in q : NumLe(DateParse(es[j].timestamp), a.lastTs)
          /\ \E j \in q : /\ DateParse(es[j].timestamp) = a.firstTs
                          /\ es[j].link = a.firstLink
                          /\ es[j].user.id = a.firstUserId
                          /\ es[j].user.name = a.firstUserName
          /\ \E j \in q : /\ DateParse(es[j].timestamp) = a.lastTs
                          /\ es[j].link = a.lastLink

\* C8: every aggregate has firstTs <= lastTs and countMTD >= 1.
C8_FirstNotAfterLast ==
  agg.called =>
    \A t \in MapKeys(agg.byTicker) :
      /\ NumLe(MapGet(agg.byTicker, t).firstTs, MapGet(agg.byTicker, t).lastTs)
      /\ MapGet(agg.byTicker, t).countMTD >= 1

\* An aggregate of two mentions at different instants, and one of a mention
\* before the epoch.
C8_Witness ==
  /\ agg.called
  /\ \E t \in MapKeys(agg.byTicker) :
       /\ MapGet(agg.byTicker, t).countMTD = 2
       /\ NumLt(MapGet(agg.byTicker, t).firstTs, MapGet(agg.byTicker, t).lastTs)
       /\ NumLt(Ms(0, 0), MapGet(agg.byTicker, t).firstTs)

LowerChar(c) == CASE c = "A" -> "a" [] c = "B" -> "b" [] OTHER -> c
EqualIgnoringCase(s, t) ==
  Len(s) = Len(t) /\ \A q \in 1..Len(s) : LowerChar(s[q]) = LowerChar(t[q])

\* C9: the ticker map never holds two keys that are equal ignoring case; each
\* key is an uppercased symbol, and the records of the month whose tickers
\* differ only in case are counted under that one key.
C9_CaseInsensitiveKeys ==
  agg.called =>
    /\ \A x, y \in 1..Len(agg.byTicker.keys) :
         EqualIgnoringCase(agg.byTicker.keys[x], agg.byTicker.keys[y]) => x = y
    /\ \A x \in 1..Len(agg.byTicker.keys) :
         \A q \in 1..Len(agg.byTicker.keys[x]) :
           agg.byTicker.keys[x][q] = UpperChar(agg.byTicker.keys[x][q])
    /\ \A x \in 1..Len(agg.byTicker.keys) :
         agg.byTicker.val[x].countMTD =
           Cardinality({j \in 1..Len(agg.entries) :
                          /\ Truthy(agg.entries[j].ticker)
                          /\ agg.entries[j].timestamp.ok
                          /\ IsoMonthPrefix(agg.entries[j].timestamp) = agg.month
                          /\ EqualIgnoringCase(agg.entries[j].ticker.s, agg.byTicker.keys[x])})

\* Records spelled "ab" and "Ab" in one month, collapsed under "AB".
C9_Witness ==
  /\ agg.called
  /\ agg.byTicker.keys = <<(<<"A", "B">>)>>
  /\ agg.byTicker.val[1].countMTD >= 2
  /\ \E x, y \in 1..Len(agg.entries) :
       /\ agg.entries[x].ticker = Str(<<"a", "b">>)
       /\ agg.entries[y].ticker = Str(<<"A", "b">>)
       /\ agg.entries[x].timestamp.ok /\ agg.entries[y].timestamp.ok
       /\ IsoMonthPrefix(agg.entries[x].timestamp) = agg.month
       /\ IsoMonthPrefix(agg.entries[y].timestamp) = agg.month

\* C10: the month keys availableMonths returns are strictly descending (in the
\* order of the keys as strings), hence free of duplicates.
C10_MonthsStrictlyDescending ==
  avail.called =>
    \A x, y \in 1..Len(avail.months) :
      x < y => localeCompare(avail.months[x], avail.months[y]) > 0

\* A store whose months repeat and come oldest first.
C10_Witness ==
  /\ avail.called
  /\ Len(avail.entries) = 3 /\ Len(avail.months) = 2
  /\ MonthKey(avail.entries[1]) = avail.months[2]
  /\ MonthKey(avail.entries[2]) = avail.months[1]

\* C11: availableMonths returns exactly the UTC months present in the store:
\* every returned key is the "YYYY-MM" month of some record with a valid
\* timestamp, every such record has its month in the result, and a record with
\* a missing or unparseable timestamp contributes no key.
C11_ExactlyTheMonthsPresent ==
  avail.called =>
    {avail.months[j] : j \in 1..Len(avail.months)}
      = {IsoMonthPrefix(avail.entries[j].timestamp) :
           j \in {q \in 1..Len(avail.entries) : avail.entries[q].timestamp.ok}}

\* The tickers of the ticker map whose first mention is by user u.
FirstMentionsOf(u) ==
  {j \in 1..Len(agg.byTicker.keys) : agg.byTicker.val[j].firstUserId = u}
RECURSIVE SumCounts(_)
SumCounts(vals) == IF Len(vals) = 0 THEN 0 ELSE Head(vals).count + SumCounts(Tail(vals))
\* The first position of q whose record has the least (greatest) timestamp
\* of the records at the positions q of es.
FirstEarliest(es, q) ==
  CHOOSE j \in q :
    /\ \A h \in q : NumLe(DateParse(es[j].timestamp), DateParse(es[h].timestamp))
    /\ \A h \in q : h < j => DateParse(es[h].timestamp) # DateParse(es[j].timestamp)
FirstLatest(es, q) ==
  CHOOSE j \in q :
    /\ \A h \in q : NumLe(DateParse(es[h].timestamp), DateParse(es[j].timestamp))
    /\ \A h \in q : h < j => DateParse(es[h].timestamp) # DateParse(es[j].timestamp)
\* The first-mention fields of ticker t are those of the first record with
\* the least timestamp.
FirstFieldsStable(t) ==
  LET a == MapGet(agg.byTicker, t)
      e == agg.entries[FirstEarliest(agg.entries, Qualifying(agg.entries, agg.month, t))]
  IN  a.firstLink = e.link /\ a.firstUserId = e.user.id /\ a.firstUserName = e.user.name
\* The last link of ticker t is that of the first record with the greatest
\* timestamp.
LastLinkStable(t) ==
  MapGet(agg.byTicker, t).lastLink
    = agg.entries[FirstLatest(agg.entries, Qualifying(agg.entries, agg.month, t))].link
\* C32: ties are broken by encounter order: the first-mention fields come
\* from the first record of the input that has the minimum timestamp, and
\* lastLink from the first record that has the maximum timestamp.
C32_TiesByEncounterOrder ==
  agg.called =>
    \A t \in MapKeys(agg.byTicker) : FirstFieldsStable(t) /\ LastLinkStable(t)
\* The part of C32 on the first mention.
C32_FirstPart == agg.called => \A t \in MapKeys(agg.byTicker) : FirstFieldsStable(t)
\* C32 for the tickers whose records are not before the epoch.
C32_FromEpoch ==
  agg.called =>
    \A t \in MapKeys(agg.byTicker) :
      (\A j \in Qualifying(agg.entries, agg.month, t) : agg.entries[j].timestamp.y >= 1970)
        => FirstFieldsStable(t) /\ LastLinkStable(t)

\* C19: in the user map, the count of user u is the number of tickers of the
\* ticker map whose firstUserId is u; exactly the non-empty user ids holding
\* at least one first mention have an entry, and the counts add up to the
\* number of aggregates with a non-empty firstUserId.
C19_UserCountsAreFirstMentions ==
  agg.called =>
    /\ \A j \in 1..Len(agg.firstByUserCounts.keys) :
         /\ agg.firstByUserCounts.keys[j] # ""
         /\ agg.firstByUserCounts.val[j].count
              = Cardinality(FirstMentionsOf(agg.firstByUserCounts.keys[j]))
         /\ agg.firstByUserCounts.val[j].count >= 1
         /\ \A h \in 1..Len(agg.firstByUserCounts.keys) :
              agg.firstByUserCounts.keys[h] = agg.firstByUserCounts.keys[j] => h = j
    /\ \A j \in 1..Len(agg.byTicker.keys) :
         agg.byTicker.val[j].firstUserId # "" =>
           \E h \in 1..Len(agg.firstByUserCounts.keys) :
             agg.firstByUserCounts.keys[h] = agg.byTicker.val[j].firstUserId
    /\ SumCounts(agg.firstByUserCounts.val)
         = Cardinality({j \in 1..Len(agg.byTicker.keys) : agg.byTicker.val[j].firstUserId # ""})
\* One user holds the first mention of two tickers.
C19_Witness ==
  /\ agg.called
  /\ Len(agg.byTicker.keys) = 2
  /\ \E j \in 1..Len(agg.firstByUserCounts.keys) : agg.firstByUserCounts.val[j].count = 2

\* The ticker of a record after normalization: trimmed, then uppercased.
NormalizedTicker(e) == [q \in 1..Len(trim(e.ticker.s)) |-> UpperChar(trim(e.ticker.s)[q])]
\* The positions of the records of the selected month whose normalized
\* ticker is t.
NormalizedTo(t) ==
  {j \in 1..Len(agg.entries) :
     /\ agg.entries[j].ticker.def /\ agg.entries[j].timestamp.ok
     /\ IsoMonthPrefix(agg.entries[j].timestamp) = agg.month
     /\ NormalizedTicker(agg.entries[j]) = t}
\* C21: tickers are trimmed before they are uppercased: every key of the
\* ticker map is a non-empty trimmed symbol counting all records of the month
\* that normalize to it, every record of the month with a non-empty
\* normalized ticker is counted under it, and a ticker of white space only
\* has no aggregate.
C21_TickersTrimmed ==
  agg.called =>
    /\ \A x \in 1..Len(agg.byTicker.keys) :
         /\ agg.byTicker.keys[x] # <<>>
         /\ trim(agg.byTicker.keys[x]) = agg.byTicker.keys[x]
         /\ agg.byTicker.val[x].countMTD = Cardinality(NormalizedTo(agg.byTicker.keys[x]))
    /\ \A j \in 1..Len(agg.entries) :
         (NormalizedTicker(agg.entries[j]) # <<>> /\ j \in NormalizedTo(NormalizedTicker(agg.entries[j])))
           => MapHas(agg.byTicker, NormalizedTicker(agg.entries[j]))

(* ====================== claims on the resolver ======================== *)
\* The workers whose resolver ran on a series.
Resolved == {j \in 1..Len(workers) : workers[j].st \in {"settled", "done"}
                                      /\ workers[j].ch # NoSeries}

\* C12: with anchor "month" the target date the resolver compares the
\* exchange-local dates of the series with is day 1 of the selected month, in
\* every exchange time zone.
C12_MonthTargetIsFirstOfSelectedMonth ==
  \A j \in Resolved :
    args.anchor = "month" =>
      TargetYMD(workers[j].ch.tz, args.anchor, subset[j].firstTs, split(args.selectedMonth))
        = args.selectedMonth \o <<"-", "0", "1">>

\* The resolver calls that were handed a cached series and have settled.
HitResolved == {j \in 1..Len(workers) : workers[j].st \in {"settled", "done"}
                                          /\ workers[j].requests = 0}
DayOfYMD(ymd) ==
  DaysFromCivil(StrToNat(split(ymd)[1]), StrToNat(split(ymd)[2]), StrToNat(split(ymd)[3]))
\* The day number of the exchange-local date of point j of the series.
LocalDay(ch, j) ==
  DaysFromCivil(LocalCivil(ch.timestamps[j], ch.tz).y, LocalCivil(ch.timestamps[j], ch.tz).m,
                LocalCivil(ch.timestamps[j], ch.tz).d)
\* The target date of the run, as a day number.
TargetDay ==
  DayOfYMD(TargetYMD(resolveCall.ch.tz, resolveCall.anchor, resolveCall.mentionTs,
                     split(resolveCall.selectedMonth)))
\* The points of the series whose local date is on or after the target.
OnOrAfterTarget ==
  {j \in 1..Len(resolveCall.ch.timestamps) : LocalDay(resolveCall.ch, j) >= TargetDay}
\* C22: on a series with ascending timestamps the start index is the least
\* index whose exchange-local date is on or after the target date, 0 when
\* there is none, and a valid index whenever the series is not empty.
C22_StartIndexFirstOnOrAfterTarget ==
  (resolveCall.called /\ resolveCall.reply.kind = "ok") =>
    /\ IF OnOrAfterTarget = {} THEN resolveCall.idx = 0
       ELSE /\ resolveCall.idx + 1 \in OnOrAfterTarget
            /\ \A j \in OnOrAfterTarget : resolveCall.idx + 1 <= j
    /\ Len(resolveCall.ch.timestamps) > 0 =>
         resolveCall.idx \in 0..(Len(resolveCall.ch.timestamps) - 1)
\* A target on a Saturday (the mention seen from Tokyo) advances to Monday.
C22_Witness ==
  /\ resolveCall.called /\ resolveCall.anchor = "mention"
  /\ Len(resolveCall.ch.timestamps) = 2 /\ resolveCall.idx = 1
  /\ LocalDay(resolveCall.ch, 1) < TargetDay /\ LocalDay(resolveCall.ch, 2) > TargetDay

\* The indices at or after idx, counted from 0, that hold a number.
FiniteFrom(arr, idx) == {j \in idx..(Len(arr) - 1) : arr[j + 1].k = "num"}
\* A price value that is present (neither null nor undefined).
Available(x) == x.k \notin {"null", "undef"}
\* The value of the first point at or after the start index that holds a
\* number, undefined when there is none.
CandidateFrom(arr, idx) ==
  IF FiniteFrom(arr, idx) = {} THEN JsUndef
  ELSE arr[(CHOOSE j \in FiniteFrom(arr, idx) : \A h \in FiniteFrom(arr, idx) : j <= h) + 1]
\* C23: a run that succeeds in mode "cc" returns the gap-filled close as
\* basis and lastClose as latest, in mode "oc" the gap-filled open and
\* lastPrice, whenever that preferred value is present; the other value is
\* returned only when the preferred one is absent.
C23_ModeSelectsFields ==
  (resolveCall.called /\ resolveCall.outcome.ok) =>
    LET open  == CandidateFrom(resolveCall.ch.opens, resolveCall.idx)
        close == CandidateFrom(resolveCall.ch.closes, resolveCall.idx)
    IN  IF resolveCall.mode = "cc"
        THEN /\ resolveCall.outcome.basis = IF Available(close) THEN close ELSE open
             /\ resolveCall.outcome.latest =
                  IF Available(resolveCall.ch.lastClose) THEN resolveCall.ch.lastClose
                  ELSE resolveCall.ch.lastPrice
        ELSE /\ resolveCall.outcome.basis = IF Available(open) THEN open ELSE close
             /\ resolveCall.outcome.latest =
                  IF Available(resolveCall.ch.lastPrice) THEN resolveCall.ch.lastPrice
                  ELSE resolveCall.ch.lastClose
\* Mode "cc" on a series whose open and close, and whose last price and last
\* close, differ.
C23_Witness ==
  /\ resolveCall.called /\ resolveCall.outcome.ok /\ resolveCall.mode = "cc"
  /\ Available(resolveCall.startOpen) /\ Available(resolveCall.startClose)
  /\ resolveCall.startOpen # resolveCall.startClose
  /\ resolveCall.outcome.basis = resolveCall.startClose
  /\ resolveCall.ch.lastPrice # resolveCall.ch.lastClose
  /\ resolveCall.outcome.latest = resolveCall.ch.lastClose

\* x is a positive number.
Positive(x) == x.k = "num" /\ x.v > 0
\* C24: the resolver fails exactly when the fetch of the series fails, or
\* neither the gap-filled open nor the gap-filled close at or after the
\* start index is positive, or neither lastPrice nor lastClose is positive;
\* so it fails on a series without points.
C24_FailsExactlyWhenNoPositiveCandidate ==
  resolveCall.called =>
    /\ ~resolveCall.outcome.ok <=>
         \/ resolveCall.reply.kind # "ok"
         \/ /\ ~Positive(CandidateFrom(resolveCall.ch.opens, resolveCall.idx))
            /\ ~Positive(CandidateFrom(resolveCall.ch.closes, resolveCall.idx))
         \/ /\ ~Positive(resolveCall.ch.lastPrice)
            /\ ~Positive(resolveCall.ch.lastClose)
    /\ (resolveCall.reply.kind = "ok" /\ Len(resolveCall.ch.timestamps) = 0)
         => ~resolveCall.outcome.ok
\* A success with one positive candidate of each pair only.
C24_Witness ==
  /\ resolveCall.called /\ resolveCall.outcome.ok
  /\ ~Positive(resolveCall.startOpen) /\ Positive(resolveCall.startClose)
  /\ ~Positive(resolveCall.ch.lastPrice) /\ Positive(resolveCall.ch.lastClose)

(* ======================= claims on the price cache ==================== *)
\* C14: the cache is append-only: in every step, every key that holds a
\* series still holds it afterwards, and holds the same series; this
\* includes the step in which a second request for the same key, started
\* before the first one stored its result, completes.
C14_CacheAppendOnly ==
  [][\A key \in DOMAIN chartCache :
        key \in DOMAIN chartCache' /\ chartCache'[key] = chartCache[key]]_vars

\* Worker j has not begun its fetch.
NotStarted(j) == j > Len(workers) \/ workers[j].st = "idle"
\* C15: a fetch that begins while its key is in the cache returns the
\* stored series and issues no upstream request; a fetch that begins while
\* its key is not in the cache issues one; no fetch ever issues more than
\* one request, and only a fetch that issued one waits for a reply.
C15_RequestOnlyOnMiss ==
  /\ [][\A j \in 1..Len(workers') :
          (NotStarted(j) /\ workers'[j].st # "idle") =>
            IF workers'[j].key \in DOMAIN chartCache
            THEN /\ workers'[j].st = "hit"
                 /\ workers'[j].requests = 0
                 /\ workers'[j].ch = chartCache[workers'[j].key]
            ELSE /\ workers'[j].st = "fetching"
                 /\ workers'[j].requests = 1]_vars
  /\ [][\A j \in 1..Len(workers) :
          workers[j].st # "idle" => workers'[j].requests = workers[j].requests]_vars
  /\ [](\A j \in 1..Len(workers) :
          /\ workers[j].requests <= 1
          /\ workers[j].st = "fetching" => workers[j].requests = 1)
C15_Witness ==
  \E j \in 1..Len(workers) : \E h \in 1..Len(workers) :
    /\ workers[j].st = "done" /\ workers[j].requests = 0
    /\ workers[j].key \in DOMAIN chartCache /\ workers[j].ch = chartCache[workers[j].key]
    /\ workers[h].st = "done" /\ workers[h].requests = 1 /\ workers[h].res.v = "gain"

\* The fetch of worker w was rejected: it sent its request and settled
\* without a series.
FetchFailed(w) == w.st \in {"settled", "done"} /\ w.requests = 1 /\ w.ch = NoSeries
\* C26: the step in which a fetch is rejected leaves the cache as it was, and
\* the fetch has sent its one request only; the cache never holds anything
\* but a series, so that a fetch that begins after a fetch of its key was
\* rejected, the key still being absent, sends an upstream request.
C26_FailedFetchLeavesCache ==
  /\ [][\A j \in 1..Len(workers) :
          (workers[j].st = "fetching" /\ FetchFailed(workers'[j])) =>
            chartCache' = chartCache /\ workers'[j].requests = 1]_vars
  /\ [][\A h \in 1..Len(workers') :
          (/\ NotStarted(h) /\ workers'[h].st # "idle"
           /\ workers'[h].key \notin DOMAIN chartCache
           /\ \E j \in 1..Len(workers) :
                FetchFailed(workers[j]) /\ workers[j].key = workers'[h].key)
            => workers'[h].st = "fetching" /\ workers'[h].requests = 1]_vars
  /\ [](\A key \in DOMAIN chartCache : chartCache[key] # NoSeries)
\* With one slot, the fetch of the first item was rejected and the second
\* item, of the same key, has sent its own request.
C26_Witness ==
  /\ phase = "running" /\ limit = 1 /\ Len(workers) = 2
  /\ FetchFailed(workers[1]) /\ workers[2].key = workers[1].key
  /\ workers[2].st = "fetching" /\ workers[2].requests = 1
  /\ workers[1].key \notin DOMAIN chartCache

\* C17: a call with an empty item list has returned the empty sequence as
\* soon as it is made, has started no fetch, and leaves the price cache as
\* it found it.
C17_EmptyListReturnsEmpty ==
  /\ []((phase # "idle" /\ items = <<>>) =>
         (phase = "resolved" /\ out = <<>> /\ workers = <<>>))
  /\ [][(phase = "idle" /\ phase' # "idle" /\ items' = <<>>) =>
          chartCache' = chartCache]_vars
C17_Witness ==
  /\ phase = "resolved" /\ items = <<>> /\ out = <<>> /\ workers = <<>>
  /\ DOMAIN chartCache # {}

(* ==================== claims on the gap-filling loop ================== *)
\* C16: the candidate the gap-filling loop leaves is the value at the first
\* index j >= idx that holds a number; when no index at or after idx holds
\* one, the candidate is absent (null or undefined).
C16_GapFillFirstFiniteFromIdx ==
  gap.called =>
    IF FiniteFrom(gap.arr, gap.idx) = {}
    THEN gap.out.k \in {"null", "undef"}
    ELSE gap.out = gap.arr[(CHOOSE j \in FiniteFrom(gap.arr, gap.idx) :
                              \A h \in FiniteFrom(gap.arr, gap.idx) : j <= h) + 1]
\* A number before idx, a gap at idx, and a number after it.
C16_Witness ==
  /\ gap.called /\ gap.idx = 1 /\ Len(gap.arr) = 3
  /\ gap.arr[1].k = "num" /\ gap.arr[2].k = "null" /\ gap.arr[3].k = "num"
  /\ gap.arr[1] # gap.arr[3] /\ gap.out = gap.arr[3]

(* ======================= claims on the mention store ================== *)
\* C18: for every state of the store (missing, unreadable, empty, not JSON,
\* an array, an object with or without entries), what the caller takes from
\* loadDb as entries is a sequence of records.
C18_LoadYieldsSequence ==
  loaded.called => loaded.entries.t = "array"

(* ===================== claims on the monthly scores =================== *)
\* The words of a message after the first, and the token the message
\* carries: the value of its last word of the form token=value.
Words(content) == splitSpaces(trim(content))
CarriesToken(content, token) ==
  \E j \in 2..Len(Words(content)) :
    /\ Len(splitEquals(Words(content)[j])) >= 2
    /\ splitEquals(Words(content)[j])[1] = TokenKey
    /\ splitEquals(Words(content)[j])[2] = token
    /\ \A h \in (j + 1)..Len(Words(content)) :
         ~(/\ Len(splitEquals(Words(content)[h])) >= 2
           /\ splitEquals(Words(content)[h])[1] = TokenKey
           /\ Len(splitEquals(Words(content)[h])[2]) > 0)
\* The message is a trigger the listener may act on.
Authorized(msg) ==
  /\ msg.webhook
  /\ msg.channel = config.logChannel
  /\ \E t \in {StartTrigger, RemindTrigger, PublishTrigger} :
       startsWith(toLowerCase(trim(msg.content)), t)
  /\ config.token # <<>>
  /\ CarriesToken(msg.content, config.token)
\* C20: a survey action is run for a channel message only if the message
\* came from a webhook, in the LOG channel, starts with a sp:scores trigger
\* and carries the configured, non-empty token; the handling of any other
\* message leaves the score channel and the windows as they were; with no
\* token configured nothing is ever run.
C20_OnlyAuthorizedTriggersAct ==
  /\ [][handled' # handled =>
          /\ last'.executed # "none" => Authorized(last'.msg)
          /\ ~Authorized(last'.msg) => survey' = survey]_vars
  /\ [](config.token = <<>> => (survey = NoSurvey /\ last.executed = "none"))
\* A trigger was run, and the same text sent by a user was then ignored.
C20_Witness ==
  /\ handled = 2 /\ survey = [posts |-> 2, windows |-> {CurrentPeriod}]
  /\ last.executed = "none" /\ ~last.msg.webhook /\ last.msg.channel = "log"
  /\ CarriesToken(last.msg.content, config.token)

(* ================== claims on one price-series fetch =================== *)
\* The call has settled after a request to the upstream.
Answered == fetchCall.st \in {"returned", "rejected"} /\ fetchCall.requests = 1
\* The payload has no result[0], or its timestamps, opens or closes (the
\* adjusted closes standing in for absent closes) is missing or no array.
Unusable(p) ==
  \/ p.kind = "na"
  \/ /\ p.kind = "ok"
     /\ \/ p.timestamp.k # "array"
        \/ p.open.k # "array"
        \/ p.close.k = "text"
        \/ p.close.k = "missing" /\ p.adjclose.k # "array"
\* C25: a fetch answered with a payload that has no result[0], or whose
\* timestamps, opens or closes is missing or not a sequence, is rejected:
\* no series is returned and the cache is as it was before the call.
C25_UnusablePayloadRejected ==
  (Answered /\ Unusable(fetchCall.payload)) =>
    fetchCall.st = "rejected" /\ chartCache = fetchCall.before

\* The bucket the specification gives for d elapsed days.
BucketOf(d) ==
  CASE d <= 30 -> "1mo"
    [] 30 < d /\ d <= 62 -> "3mo"
    [] 62 < d /\ d <= 370 -> "1y"
    [] OTHER -> "5y"
\* max(1, floor((nowMs - from) / 1 day))
DaysSince(nowMs, from) ==
  IF ElapsedDays(nowMs, from) >= 1 THEN ElapsedDays(nowMs, from) ELSE 1
\* The from timestamp is absent: 0 or not a number.
Absent(t) == t.k = "NaN" \/ t = Ms(0, 0)
\* C27, amended: the range of a fetch is the bucket of the elapsed days
\* d = max(1, floor((now - from) / 1 day)), where from is the from
\* timestamp, or now when that timestamp is 0 or not a number; a from
\* timestamp in the future gives d = 1, and the key is symbol|range.
C27_RangeIsBucketOfElapsedDays ==
  fetchCall.st # "idle" =>
    LET from == IF Absent(fetchCall.fromTsMs) THEN fetchCall.nowMs ELSE fetchCall.fromTsMs
    IN  /\ fetchCall.days = DaysSince(fetchCall.nowMs, from)
        /\ fetchCall.range = BucketOf(fetchCall.days)
        /\ NumLt(fetchCall.nowMs, from) => fetchCall.days = 1
        /\ fetchCall.key = <<fetchCall.symbol, fetchCall.range>>
\* A from timestamp 62 days and a fraction of a day back: the last day of
\* the "3mo" bucket.
C27_Witness ==
  /\ fetchCall.st # "idle" /\ fetchCall.days = 62 /\ fetchCall.range = "3mo"
  /\ fetchCall.fromTsMs.ms < fetchCall.nowMs.ms
\* C27 as stated: d is computed from the from timestamp itself, whatever
\* time it is.
C27_RangeOfFromTimestampItself ==
  (fetchCall.st # "idle" /\ IsTime(fetchCall.fromTsMs)) =>
    fetchCall.range = BucketOf(DaysSince(fetchCall.nowMs, fetchCall.fromTsMs))

\* The number of days of the month m of year y.
DaysInMonth(y, m) ==
  DaysFromCivil(IF m = 12 THEN y + 1 ELSE y, IF m = 12 THEN 1 ELSE m + 1, 1)
    - DaysFromCivil(y, m, 1)
\* The day number of the date k months before the date of day number z
\* (the last day of the month when the month is shorter).
MonthsBack(z, k) ==
  LET c  == CivilFromDays(z)
      t  == c.y * 12 + (c.m - 1) - k
      y  == t \div 12
      m  == (t % 12) + 1
  IN  DaysFromCivil(y, m, IF c.d > DaysInMonth(y, m) THEN DaysInMonth(y, m) ELSE c.d)
MonthsOf(range) ==
  CASE range = "1mo" -> 1 [] range = "3mo" -> 3 [] range = "1y" -> 12 [] OTHER -> 60
\* C28: for a from timestamp that is present and at or before now, the
\* calendar length of the chosen range, counted back from now, is at least
\* the elapsed days between the from timestamp and now.
C28_RangeCoversSpan ==
  (fetchCall.st # "idle" /\ ~Absent(fetchCall.fromTsMs)
     /\ NumLe(fetchCall.fromTsMs, fetchCall.nowMs)) =>
    fetchCall.nowMs.day - MonthsBack(fetchCall.nowMs.day, MonthsOf(fetchCall.range))
      >= ElapsedDays(fetchCall.nowMs, fetchCall.fromTsMs)

(* ===================== claims on the score file ======================== *)
\* The calls that submitted a valid score, and the entries of a user.
ValidCalls == {c \in 1..Len(addCalls) : addCalls[c].st \notin {"rejected"}}
EntriesOfUser(u) ==
  {j \in 1..Len(scoreFile) : scoreFile[j].userHash = hashUserForPeriod(u, ScorePeriod)}
\* The last valid call of user u.
LastCallOf(u) ==
  CHOOSE c \in ValidCalls :
    addCalls[c].user = u /\ \A d \in ValidCalls : addCalls[d].user = u => d <= c
\* C33: once every addScore call has returned, the score file holds exactly
\* one entry per user who submitted a valid score, with the score of that
\* user's last submission, and no other entry.
C33_OneEntryPerUser ==
  (\A c \in 1..Len(addCalls) : addCalls[c].st \in {"done", "rejected"}) =>
    /\ \A c \in ValidCalls :
         /\ Cardinality(EntriesOfUser(addCalls[c].user)) = 1
         /\ \A j \in EntriesOfUser(addCalls[c].user) :
              scoreFile[j].score = addCalls[LastCallOf(addCalls[c].user)].score
    /\ Len(scoreFile) = Cardinality({addCalls[c].user : c \in ValidCalls})
\* The part of C33 that holds under every interleaving: the file never has
\* two entries of one user.
AtMostOneEntryPerUser ==
  \A u \in ScoreUserPool : Cardinality(EntriesOfUser(u)) <= 1

(* ======================= claims on the live log ======================== *)
\* a is a prefix of b.
IsPrefix(a, b) == Len(a) <= Len(b) /\ SubSeq(b, 1, Len(a)) = a
\* C34: the step in which an appendToLog call completes without error leaves
\* the daily file with every record it held when the call began and every
\* record it held just before, in the same order, followed by the new
\* record; also when the download failed and when calls overlap.
C34_LogAppendOnly ==
  [][\A c \in 1..Len(appendCalls) :
       (appendCalls[c].st = "uploading" /\ appendCalls'[c].st = "done") =>
         /\ IsPrefix(appendCalls[c].before, logFile'[appendCalls[c].day])
         /\ IsPrefix(logFile[appendCalls[c].day], logFile'[appendCalls[c].day])
         /\ logFile'[appendCalls[c].day][Len(logFile'[appendCalls[c].day])]
              = appendCalls[c].id]_vars
\* The part of C34 that holds: the completed call leaves its record last in
\* the file, and when its download gave the file as it still is, nothing is
\* lost.
AppendKeepsWhatItRead ==
  [][\A c \in 1..Len(appendCalls) :
       (appendCalls[c].st = "uploading" /\ appendCalls'[c].st = "done") =>
         /\ logFile'[appendCalls[c].day] = Append(appendCalls[c].existing, appendCalls[c].id)
         /\ appendCalls[c].existing = logFile[appendCalls[c].day]
              => IsPrefix(logFile[appendCalls[c].day], logFile'[appendCalls[c].day])]_vars

\* The records a run has collected for the day.
RecordsFor(b, day) ==
  IF MapHas(b.buckets, day) THEN MapGet(b.buckets, day).records ELSE <<>>
\* No id occurs twice in the records.
NoRepeat(recs) == \A j, k \in 1..Len(recs) : recs[j] = recs[k] => j = k
\* The part of C35 that holds: after a backfill run every id occurs at most
\* once in each daily file, and a run never adds an id twice.
BackfillOncePerFile ==
  /\ \A day \in LogDays : NoRepeat(logFile[day])
  /\ \A day \in LogDays : NoRepeat(RecordsFor(backfill, day))
\* C35: a backfill run adds no record for an id that is in the day's file or
\* that it added before, every id occurs at most once per daily file after
\* the run, and a second run after a completed one, the channel unchanged,
\* uploads nothing.
C35_BackfillNeverDuplicates ==
  /\ []BackfillOncePerFile
  /\ [](backfill.st = "done" /\ backfill.prev = "done" => backfill.uploads = 0)
  /\ [][\A day \in LogDays :
          Len(RecordsFor(backfill', day)) > Len(RecordsFor(backfill, day)) =>
            LET id == RecordsFor(backfill', day)[Len(RecordsFor(backfill', day))]
            IN id \notin IdsOf(logFile[day]) /\ id \notin IdsOf(RecordsFor(backfill, day))]_vars

(* =================== claims on commitLogIfChanged ====================== *)
\* The part of C36 that holds: true is returned only after the commit was
\* created, and a call that finds nothing staged returns false and creates
\* no commit.
TrueOnlyAfterCommit ==
  git.st = "returned" =>
    /\ git.ret = TRUE => git.made
    /\ ~git.found => git.ret = FALSE /\ ~git.made
\* C36: commitLogIfChanged returns true only when the commit was created
\* and a push succeeded; a call that finds nothing staged returns false
\* without a commit.
C36_TrueOnlyWhenPushed ==
  git.st = "returned" =>
    /\ git.ret = TRUE => git.made /\ git.pushed
    /\ ~git.found => git.ret = FALSE /\ ~git.made

(* ================= claims on the dashboard selections ================== *)
\* The pairs of a dashboard message and a user.
DashKeys == {StateKey(mid, uid) : mid \in DashMessagePool, uid \in DashUserPool}
\* The step stores the selection of the select menu cid.
Selects(cid) ==
  /\ dash'.served > dash.served
  /\ dash'.last.cid = cid
  /\ dash'.last.ok
\* Every pair but key keeps its state, stored or not.
OthersKept(key) ==
  \A k \in DashKeys \ {key} :
    /\ MapHas(metricState', k) = MapHas(metricState, k)
    /\ StoredFor(metricState', k) = StoredFor(metricState, k)
\* C37: a metric selection changes the metric of its (message, user) pair
\* and nothing else, a month selection keeps the pair's metric and every
\* other pair, and a pair without a stored selection resolves to month_oc,
\* anchor month, mode oc.
C37_SelectionsPerPair ==
  /\ [][Selects("dash:metric") =>
          LET key == StateKey(dash'.last.messageId, dash'.last.userId)
          IN /\ StoredFor(metricState', key)["month"] = StoredFor(metricState, key)["month"]
             /\ StoredFor(metricState', key)["metric"] = OrElse(dash'.last.value, "month_oc")
             /\ OthersKept(key)]_vars
  /\ [][Selects("dash:month") =>
          LET key == StateKey(dash'.last.messageId, dash'.last.userId)
          IN /\ StoredFor(metricState', key)["metric"] = StoredFor(metricState, key)["metric"]
             /\ OthersKept(key)]_vars
  /\ [](\A mid \in DashMessagePool, uid \in DashUserPool :
          ~MapHas(metricState, StateKey(mid, uid)) =>
            /\ getSelectedMetricForMessage(metricState, mid, uid) = "month_oc"
            /\ metricToComputeOpts(getSelectedMetricForMessage(metricState, mid, uid))
                 = [anchor |-> "month", mode |-> "oc"])
\* A metric was selected for a pair that keeps the month of its dashboard,
\* while another pair has a stored selection and a third has none.
C37_Witness ==
  /\ dash.last.cid = "dash:metric" /\ dash.last.ok
  /\ LET key == StateKey(dash.last.messageId, dash.last.userId)
     IN /\ MapHas(metricState, key)
        /\ MapGet(metricState, key)["month"] = CurrentMonth
        /\ MapGet(metricState, key)["metric"] = "mention_oc"
        /\ \E k \in DashKeys \ {key} : MapHas(metricState, k)
        /\ \E k \in DashKeys : ~MapHas(metricState, k)

(* ====================== claims on mapLimit alone ======================= *)
\* The part of C38 that holds: a call on a list that is not empty resolves.
MapLimitResolvesWithItems ==
  (phase = "running" /\ Len(subset) > 0) ~> (phase = "resolved")
\* C38: every mapLimit call resolves, whatever the length of the list, and
\* the call on the empty list resolves without a worker having run.
C38_MapLimitResolvesForEveryLength ==
  /\ \A n \in 0..MaxItems : (phase = "running" /\ Len(subset) = n) ~> (phase = "resolved")
  /\ [](phase = "resolved" /\ Len(subset) = 0 => Len(results) = 0 /\ Len(workers) = 0)
====
